---- MODULE Spec2Model ----
(***************************************************************************)
(* Verification model of the psych-research-data-toolkit (prdt) analytics  *)
(* engine: PHI column scanning and the export guard (phi.py, cli.py),      *)
(* threshold alerting (stats.py), scale scoring (scales.py) and the run    *)
(* handlers with their run-over-run drift check (cli.py).                  *)
(*                                                                         *)
(* Conventions.  A text value is a TLA+ string; Spell gives the characters  *)
(* of a column name or keyword so that `token in col.lower()` and sorted() *)
(* are computed on characters.  Python's None for a list-valued option is  *)
(* the empty sequence (the code reads every such option through `x or []`  *)
(* or a truth test).  An optional value is a record with a `present`       *)
(* field.  Scale means and percentages are integers in hundredths.         *)
(***************************************************************************)
EXTENDS Integers, Sequences, FiniteSets, TLC

VARIABLES
    args,      \* arguments of the function under analysis (function-level specifications)
    ret,       \* what the calls made so far returned
    now,       \* the wall clock, in whole seconds (the resolution of a manifest stamp)
    outdir,    \* the files of the output location
    last,      \* what the most recent invocation did
    nruns      \* invocations so far

vars == <<args, ret, now, outdir, last, nruns>>

Idle == [fn |-> "idle"]

----------------------------------------------------------------------------
(* Strings as character tuples *)

NA == "<NA>"

contact == "contact"
note    == "note"
Name    == "Name"
score   == "score"

Spell(s) ==
    CASE s = "contact" -> <<"c","o","n","t","a","c","t">>
      [] s = "note"    -> <<"n","o","t","e">>
      [] s = "Name"    -> <<"N","a","m","e">>
      [] s = "score"   -> <<"s","c","o","r","e">>
      [] s = "name"    -> <<"n","a","m","e">>
      [] s = "email"   -> <<"e","m","a","i","l">>
      [] s = "phone"   -> <<"p","h","o","n","e">>
      [] s = "mrn"     -> <<"m","r","n">>
      [] s = "phq9"    -> <<"p","h","q","9">>
      [] s = "gad7"    -> <<"g","a","d","7">>
      [] s = "sleep"   -> <<"s","l","e","e","p">>
      [] s = "phq9_item1" -> <<"p","h","q","9","_","i","t","e","m","1">>
      [] s = "phq9_item2" -> <<"p","h","q","9","_","i","t","e","m","2">>
      [] s = "phq9_item3" -> <<"p","h","q","9","_","i","t","e","m","3">>
      [] s = "phq9_item4" -> <<"p","h","q","9","_","i","t","e","m","4">>
      [] s = "phq9_item5" -> <<"p","h","q","9","_","i","t","e","m","5">>
      [] s = "phq9_item6" -> <<"p","h","q","9","_","i","t","e","m","6">>
      [] s = "phq9_item7" -> <<"p","h","q","9","_","i","t","e","m","7">>
      [] s = "phq9_item8" -> <<"p","h","q","9","_","i","t","e","m","8">>
      [] s = "phq9_item9" -> <<"p","h","q","9","_","i","t","e","m","9">>
      [] s = "gad7_item1" -> <<"g","a","d","7","_","i","t","e","m","1">>
      [] s = "gad7_item2" -> <<"g","a","d","7","_","i","t","e","m","2">>
      [] s = "gad7_item3" -> <<"g","a","d","7","_","i","t","e","m","3">>
      [] s = "gad7_item4" -> <<"g","a","d","7","_","i","t","e","m","4">>
      [] s = "gad7_item5" -> <<"g","a","d","7","_","i","t","e","m","5">>
      [] s = "gad7_item6" -> <<"g","a","d","7","_","i","t","e","m","6">>
      [] s = "gad7_item7" -> <<"g","a","d","7","_","i","t","e","m","7">>

\* Code-point order of the characters used.
Alphabet ==
    << "1", "2", "3", "4", "5", "6", "7", "8", "9", "N", "_", "a", "c", "d", "e", "g",
       "h", "i", "l", "m", "n", "o", "p", "q", "r", "s", "t" >>

Ord(c) == CHOOSE i \in 1..Len(Alphabet) : Alphabet[i] = c

LowerChar(c) == IF c = "N" THEN "n" ELSE c

Lower(s) == [i \in 1..Len(s) |-> LowerChar(s[i])]

IsSubstring(t, s) ==
    \E i \in 0..(Len(s) - Len(t)) : SubSeq(s, i + 1, i + Len(t)) = t

RECURSIVE CharsLess(_, _)
CharsLess(a, b) ==
    IF a = <<>> THEN b # <<>>
    ELSE IF b = <<>> THEN FALSE
    ELSE IF a[1] # b[1] THEN Ord(a[1]) < Ord(b[1])
    ELSE CharsLess(Tail(a), Tail(b))

StrLess(a, b) == CharsLess(Spell(a), Spell(b))

RECURSIVE sorted(_)
sorted(S) ==
    IF S = {} THEN <<>>
    ELSE LET m == CHOOSE x \in S : \A y \in S \ {x} : StrLess(x, y)
         IN  <<m>> \o sorted(S \ {m})

Range(s) == {s[i] : i \in 1..Len(s)}

----------------------------------------------------------------------------
(* phi.py *)

RE_EMAIL == "[A-Za-z0-9._%+-]+@[A-Za-z0-9.-]+\\.[A-Za-z]{2,}"
RE_PHONE == "\\b(?:\\+?1[-.\\s]?)?(?:\\(\\d{3}\\)|\\d{3})[-.\\s]?\\d{3}[-.\\s]?\\d{4}\\b"
RE_SSN   == "\\b\\d{3}-\\d{2}-\\d{4}\\b"
RE_MRN   == "\\bMRN\\d+\\b"
RE_URL   == "https?://[^\\s]+"
RE_DEMO  == "demo_\\d+"

PHI_PATTERNS ==
    << [name |-> "email", regex |-> RE_EMAIL],
       [name |-> "phone", regex |-> RE_PHONE],
       [name |-> "ssn",   regex |-> RE_SSN],
       [name |-> "mrn",   regex |-> RE_MRN],
       [name |-> "url",   regex |-> RE_URL] >>

\* The cell texts of the model and, for each regular expression, the ones
\* in which `Series.str.contains(regex)` finds a match.
CellTexts == {"ok", "a@x.com", "b@y.com", "demo_1", "1", "2"}

str_contains(text, regex) ==
    CASE regex = RE_EMAIL -> text \in {"a@x.com", "b@y.com"}
      [] regex = RE_DEMO  -> text \in {"demo_1"}
      [] OTHER            -> FALSE

dropna(cells) == SelectSeq(cells, LAMBDA v : v # NA)

custom_name(idx) ==
    CASE idx = 1 -> "custom_1" [] idx = 2 -> "custom_2" [] OTHER -> "custom_n"

phi_patterns(options) ==
    PHI_PATTERNS \o
    [idx \in 1..Len(options.extra_patterns) |->
        [name |-> custom_name(idx), regex |-> options.extra_patterns[idx]]]

RECURSIVE pattern_matches(_, _, _)
pattern_matches(series, patterns, k) ==
    IF k > Len(patterns) THEN <<>>
    ELSE LET count == Len(SelectSeq(series, LAMBDA v : str_contains(v, patterns[k].regex)))
         IN  (IF count # 0
              THEN << [pattern |-> patterns[k].name, count |-> count] >>
              ELSE <<>>)
             \o pattern_matches(series, patterns, k + 1)

DefaultTokens == {"name", "email", "phone", "mrn"}

\* variant of phi_tokens without the caller's keywords
phi_tokens_mut(options) ==
    {Spell(t) : t \in DefaultTokens}

phi_tokens(options) ==
    {Spell(t) : t \in DefaultTokens} \cup {Lower(Spell(t)) : t \in Range(options.keywords)}

column_matches(col, options) ==
    LET series  == dropna(col.cells)
        matches == pattern_matches(series, phi_patterns(options), 1)
    IN  IF matches = <<>> /\ \E token \in phi_tokens(options) : IsSubstring(token, Lower(Spell(col.name)))
        THEN << [pattern |-> "column_name", count |-> Len(series)] >>
        ELSE matches

\* variant of column_scanned that does not consult ignore_columns
column_scanned_mut(col, options) ==
    /\ col.text
    /\ dropna(col.cells) # <<>>

\* The loop of scan_phi_columns reaches the body for a column when it is of
\* object/string dtype, not ignored and has a non-missing value.
column_scanned(col, options) ==
    /\ col.text
    /\ col.name \notin Range(options.ignore_columns)
    /\ dropna(col.cells) # <<>>

RECURSIVE phi_flagged(_, _, _)
phi_flagged(df, options, i) ==
    IF i > Len(df) THEN <<>>
    ELSE (IF column_scanned(df[i], options) /\ column_matches(df[i], options) # <<>>
          THEN << [column |-> df[i].name, matches |-> column_matches(df[i], options)] >>
          ELSE <<>>)
         \o phi_flagged(df, options, i + 1)

\* variant of quarantine_cols that does not consult the allow-list
quarantine_cols_mut(flagged, options) ==
    [i \in 1..Len(flagged) |-> flagged[i].column]

\* variant of quarantine_cols that keeps only the first column to quarantine
quarantine_cols_first(flagged, options) ==
    LET kept == SelectSeq(flagged, LAMBDA f : f.column \notin Range(options.allow_columns))
    IN  [i \in 1..(IF kept = <<>> THEN 0 ELSE 1) |-> kept[i].column]

quarantine_cols(flagged, options) ==
    LET kept == SelectSeq(flagged, LAMBDA f : f.column \notin Range(options.allow_columns))
    IN  [i \in 1..Len(kept) |-> kept[i].column]

\* variant of scan_phi_columns that copies the quarantined columns without
\* dropping them from the frame
scan_phi_columns_mut(df, options) ==
    LET flagged == phi_flagged(df, options, 1)
        qcols   == quarantine_cols(flagged, options)
    IN  [ df         |-> df,
          flagged    |-> flagged,
          quarantine |-> [ present |-> qcols # <<>>,
                           cols    |-> SelectSeq(df, LAMBDA c : c.name \in Range(qcols)) ] ]

scan_phi_columns(df, options) ==
    LET flagged == phi_flagged(df, options, 1)
        qcols   == quarantine_cols(flagged, options)
    IN  [ df         |-> SelectSeq(df, LAMBDA c : c.name \notin Range(qcols)),
          flagged    |-> flagged,
          quarantine |-> [ present |-> qcols # <<>>,
                           cols    |-> SelectSeq(df, LAMBDA c : c.name \in Range(qcols)) ] ]

----------------------------------------------------------------------------
(* cli.py: the export guard *)

frame_empty(cols) == cols = <<>> \/ Len(cols[1].cells) = 0

\* variant of guard_aborts that does not consult allow_export
guard_aborts_mut(quarantine, allow_export) ==
    quarantine.present /\ ~frame_empty(quarantine.cols)

guard_aborts(quarantine, allow_export) ==
    ~(allow_export \/ ~quarantine.present \/ frame_empty(quarantine.cols))

_guard_against_phi(quarantine, phi_flags, allow_export) ==
    IF ~guard_aborts(quarantine, allow_export)
    THEN [ aborted |-> FALSE, detail |-> <<>>, mentions |-> {} ]
    ELSE [ aborted  |-> TRUE,
           detail   |-> sorted({phi_flags[i].column : i \in 1..Len(phi_flags)} \ {""}),
           mentions |-> {"--allow-phi-export", "[prdt.phi.allow_columns]"} ]

----------------------------------------------------------------------------
(* Inputs of the PHI specification *)

MaxCols == 2

ColumnNames == {contact, note, Name, score}

TextCells ==
    { <<NA, NA>>, <<"ok", NA>>, <<"a@x.com", NA>>, <<"a@x.com", "b@y.com">>,
      <<"demo_1", "ok">> }

ColumnPool ==
    [name : ColumnNames, text : {TRUE}, cells : TextCells]
    \cup [name : ColumnNames, text : {FALSE}, cells : {<<"1", "2">>}]

Frames ==
    UNION { { df \in [1..n -> ColumnPool] :
                \A i, j \in 1..n : i # j => df[i].name # df[j].name } : n \in 1..MaxCols }

PhiOptionsSet ==
    [ extra_patterns : {<<>>, <<RE_DEMO>>},
      keywords       : {<<>>, <<contact>>},
      ignore_columns : {<<>>, <<contact>>},
      allow_columns  : {<<>>, <<contact>>, <<Name>>} ]

InitRun ==
    /\ now = 0
    /\ outdir = Idle
    /\ last = Idle
    /\ nruns = 0

InitPhi ==
    /\ args \in [fn : {"scan_phi_columns"}, df : Frames, options : PhiOptionsSet]
    /\ ret = Idle
    /\ InitRun

Scan ==
    /\ ret = Idle
    /\ ret' = [ fn |-> "scan_phi_columns", scan |-> scan_phi_columns(args.df, args.options) ]
    /\ UNCHANGED <<args, now, outdir, last, nruns>>

Guard ==
    /\ ret.fn = "scan_phi_columns"
    /\ \E allow_export \in BOOLEAN :
         ret' = [ fn |-> "_guard_against_phi", scan |-> ret.scan,
                  allow_export |-> allow_export,
                  guard |-> _guard_against_phi(ret.scan.quarantine, ret.scan.flagged,
                                               allow_export) ]
    /\ UNCHANGED <<args, now, outdir, last, nruns>>

NextPhi == Scan \/ Guard

SpecPhi == InitPhi /\ [][NextPhi]_vars

----------------------------------------------------------------------------
(* stats.py: missingness summary and threshold alerts *)

Absent == [present |-> FALSE, value |-> 0]
Some(v) == [present |-> TRUE, value |-> v]

\* numpy's round: to the nearest, ties to the even neighbour.
RoundHalfEven(n, d) ==
    LET q == n \div d
        r == n % d
    IN  IF 2 * r < d THEN q
        ELSE IF 2 * r > d THEN q + 1
        ELSE IF q % 2 = 0 THEN q ELSE q + 1

frame_len(df) == IF df = <<>> THEN 0 ELSE Len(df[1].cells)

isna_sum(col) == Len(SelectSeq(col.cells, LAMBDA v : v = NA))

\* missing_summary: per column the count of missing cells and the percentage
\* (counts / total * 100).round(2), in hundredths of a percent.
missing_summary(df) ==
    LET total == frame_len(df)
    IN  [ count   |-> [i \in 1..Len(df) |-> [column |-> df[i].name, value |-> isna_sum(df[i])]],
          percent |-> [i \in 1..Len(df) |->
                         [column |-> df[i].name,
                          value  |-> IF total # 0
                                     THEN RoundHalfEven(isna_sum(df[i]) * 10000, total)
                                     ELSE 0]] ]

\* variant of missing_alert_fires with the boundary excluded
missing_alert_fires_mut(value, threshold) == value > threshold

missing_alert_fires(value, threshold) == value >= threshold

_missing_alerts(missing, threshold) ==
    LET hit == SelectSeq(missing.percent, LAMBDA e : missing_alert_fires(e.value, threshold))
    IN  [i \in 1..Len(hit) |->
            [type |-> "missingness", column |-> hit[i].column,
             percent |-> hit[i].value, threshold |-> threshold]]

\* variant of reliability_alert_fires with the boundary included
reliability_alert_fires_mut(value, limit) == value <= limit

reliability_alert_fires(value, limit) == value < limit

maybe_add(label, dtype, value, limit) ==
    IF ~limit.present \/ ~value.present THEN <<>>
    ELSE IF reliability_alert_fires(value.value, limit.value)
         THEN << [type |-> "reliability", target |-> label, metric |-> dtype,
                  value |-> value.value, threshold |-> limit.value] >>
         ELSE <<>>

RECURSIVE scale_reliability_alerts(_, _, _)
scale_reliability_alerts(scales, thresholds, i) ==
    IF i > Len(scales) THEN <<>>
    ELSE maybe_add(scales[i].name, "cronbach_alpha", scales[i].cronbach_alpha,
                   thresholds.cronbach_alpha_min)
         \o maybe_add(scales[i].name, "mcdonald_omega", scales[i].mcdonald_omega,
                      thresholds.mcdonald_omega_min)
         \o scale_reliability_alerts(scales, thresholds, i + 1)

_reliability_alerts(overall, scales, thresholds) ==
    maybe_add("overall", "cronbach_alpha", overall.cronbach_alpha, thresholds.cronbach_alpha_min)
    \o maybe_add("overall", "mcdonald_omega", overall.mcdonald_omega, thresholds.mcdonald_omega_min)
    \o scale_reliability_alerts(scales, thresholds, 1)

----------------------------------------------------------------------------
(* Inputs of the alert specification *)

MaxRows == 3
MaxScales == 1

MissingFrames ==
    UNION { { <<[name |-> note, text |-> TRUE, cells |-> a],
                [name |-> score, text |-> FALSE, cells |-> b]>> :
                a \in [1..n -> {NA, "ok"}], b \in [1..n -> {NA, "1"}] } : n \in 0..MaxRows }

MissingThresholds == {0, 3333, 3334, 5000, 6667, 10000}

Metric == {Absent} \cup {Some(v) : v \in {60, 70, 80}}

Limit == {Absent, Some(70)}

ScaleNames == {"phq9", "gad7"}

ScaleBlocks ==
    UNION { { b \in [1..n -> [name : ScaleNames, cronbach_alpha : Metric, mcdonald_omega : Metric]] :
                \A i, j \in 1..n : i # j => b[i].name # b[j].name } : n \in 0..MaxScales }

InitAlerts ==
    /\ args \in [fn : {"_missing_alerts"}, df : MissingFrames, threshold : MissingThresholds]
            \cup [fn : {"_reliability_alerts"},
                  overall : [cronbach_alpha : Metric, mcdonald_omega : Metric],
                  scales : ScaleBlocks,
                  thresholds : [cronbach_alpha_min : Limit, mcdonald_omega_min : Limit]]
    /\ ret = Idle
    /\ InitRun

MissingAlerts ==
    /\ ret = Idle
    /\ args.fn = "_missing_alerts"
    /\ LET missing == missing_summary(args.df)
       IN  ret' = [ fn |-> "_missing_alerts", missing |-> missing,
                    alerts |-> _missing_alerts(missing, args.threshold) ]
    /\ UNCHANGED <<args, now, outdir, last, nruns>>

ReliabilityAlerts ==
    /\ ret = Idle
    /\ args.fn = "_reliability_alerts"
    /\ ret' = [ fn |-> "_reliability_alerts",
                alerts |-> _reliability_alerts(args.overall, args.scales, args.thresholds) ]
    /\ UNCHANGED <<args, now, outdir, last, nruns>>

NextAlerts == MissingAlerts \/ ReliabilityAlerts

SpecAlerts == InitAlerts /\ [][NextAlerts]_vars

----------------------------------------------------------------------------
(* cli.py / stats.py: the report *)

\* the decimal spellings of the whole numbers a cell can hold (0 to 27, the
\* largest sum of nine items of at most 3)
Numerals ==
    << "0", "1", "2", "3", "4", "5", "6", "7", "8", "9", "10", "11", "12", "13",
       "14", "15", "16", "17", "18", "19", "20", "21", "22", "23", "24", "25",
       "26", "27" >>

IsNumeric(text) == text \in Range(Numerals)

\* float(text)
Num(text) ==
    CASE text = "0" -> 0 [] text = "1" -> 1 [] text = "2" -> 2 [] text = "3" -> 3
      [] text = "4" -> 4 [] text = "5" -> 5 [] text = "6" -> 6 [] text = "7" -> 7
      [] text = "8" -> 8 [] text = "9" -> 9 [] text = "10" -> 10 [] text = "11" -> 11
      [] text = "12" -> 12 [] text = "13" -> 13 [] text = "14" -> 14 [] text = "15" -> 15
      [] text = "16" -> 16 [] text = "17" -> 17 [] text = "18" -> 18 [] text = "19" -> 19
      [] text = "20" -> 20 [] text = "21" -> 21 [] text = "22" -> 22 [] text = "23" -> 23
      [] text = "24" -> 24 [] text = "25" -> 25 [] text = "26" -> 26 [] text = "27" -> 27

\* the text of a whole number
Str(n) == Numerals[n + 1]

\* pd.to_numeric(errors="coerce") on a column
to_numeric(col) ==
    [col EXCEPT !.cells = [i \in 1..Len(col.cells) |->
                              IF IsNumeric(col.cells[i]) THEN col.cells[i] ELSE NA],
                !.text = FALSE]

columns(df) == {df[i].name : i \in 1..Len(df)}

column(df, name) == df[CHOOSE i \in 1..Len(df) : df[i].name = name]

\* _validate_score_columns: every requested column exists and holds a numeric
\* value; the columns are replaced by their numeric coercion.
_validate_score_columns(df, cols) ==
    IF cols = <<>> \/ \E c \in Range(cols) : c \notin columns(df)
    THEN [ok |-> FALSE, df |-> df]
    ELSE LET coerced == [i \in 1..Len(df) |->
                            IF df[i].name \in Range(cols) THEN to_numeric(df[i]) ELSE df[i]]
         IN  [ ok |-> \A i \in 1..Len(coerced) :
                         coerced[i].name \in Range(cols) => dropna(coerced[i].cells) # <<>>,
               df |-> coerced ]

RECURSIVE SumCells(_)
SumCells(cells) == IF cells = <<>> THEN 0 ELSE Num(Head(cells)) + SumCells(Tail(cells))

\* Series.mean() of a numeric column with a value, in hundredths
series_mean(col) ==
    LET present == dropna(to_numeric(col).cells)
    IN  (SumCells(present) * 100) \div Len(present)

\* simple_report, lines 228-258: the scale-score summaries
scale_score_summaries(df, scales, scale_metadata) ==
    IF scales = <<>> THEN <<>>
    ELSE LET usable == SelectSeq(scale_metadata, LAMBDA m :
                          /\ m.output_column \in columns(df)
                          /\ dropna(to_numeric(column(df, m.output_column)).cells) # <<>>)
         IN  [i \in 1..Len(usable) |->
                 [ name         |-> usable[i].name,
                   score_column |-> usable[i].output_column,
                   mean         |-> series_mean(column(df, usable[i].output_column)) ]]

\* simple_report, lines 260-275: missingness alerts, then reliability alerts
report_alert_items(missing, overall, scale_block, alerts) ==
    (IF alerts.missing_pct.present
     THEN _missing_alerts(missing, alerts.missing_pct.value) ELSE <<>>)
    \o (IF alerts.reliability.present
        THEN _reliability_alerts(overall, scale_block, alerts.reliability) ELSE <<>>)

simple_report(df, overall, scales, alerts, scale_metadata) ==
    LET missing == missing_summary(df)
    IN  [ missing      |-> missing,
          scale_scores |-> scale_score_summaries(df, scales, scale_metadata),
          alerts       |-> report_alert_items(missing, overall, scales, alerts) ]

_format_phi_alerts(records) ==
    [i \in 1..Len(records) |->
        [ type |-> "phi", column |-> records[i].column, matches |-> records[i].matches,
          message |-> "PHI-like data detected in column. Column removed from outputs." ]]

\* variant of list_extend that puts the new items first
list_extend_mut(items, extra) == extra \o items

\* list.extend
list_extend(items, extra) == items \o extra

NoFile == [present |-> FALSE, value |-> <<>>]
File(v) == [present |-> TRUE, value |-> v]

_persist_alerts(dir, alerts) ==
    [dir EXCEPT !.alerts_json = IF alerts # <<>> THEN File(alerts) ELSE NoFile]

\* the columns of every scale of the reliability section, in order
RECURSIVE scale_items(_)
scale_items(scales) ==
    IF scales = <<>> THEN <<>> ELSE Head(scales).items \o scale_items(Tail(scales))

\* _write_report: validation of the score columns and of every scale's items,
\* the report with the extra (PHI) alerts appended, report.json and alerts.json
_write_report(dir, df, cols, overall, scales, alerts, extra_alerts, scale_metadata) ==
    LET items == [i \in 1..Len(scales) |-> scales[i].items]
        v     == _validate_score_columns(df, cols \o scale_items(scales))
    IN  IF cols = <<>> \/ (\E i \in 1..Len(scales) : items[i] = <<>>) \/ ~v.ok
        THEN [ok |-> FALSE, dir |-> dir, alerts |-> <<>>, scale_scores |-> <<>>, report |-> <<>>]
        ELSE LET report      == simple_report(v.df, overall, scales, alerts, scale_metadata)
                 alert_items == IF extra_alerts # <<>>
                                THEN list_extend(report.alerts, extra_alerts)
                                ELSE report.alerts
                 written     == [report EXCEPT !.alerts = alert_items]
             IN  [ ok           |-> TRUE,
                   dir          |-> _persist_alerts([dir EXCEPT !.report = File(written)],
                                                    alert_items),
                   alerts       |-> alert_items,
                   scale_scores |-> report.scale_scores,
                   report       |-> report.alerts ]

\* variant of _write_phi_quarantine that leaves an existing file in place
_write_phi_quarantine_mut(dir, quarantine) ==
    IF ~quarantine.present \/ frame_empty(quarantine.cols)
    THEN dir
    ELSE [dir EXCEPT !.phi_quarantine = File(quarantine.cols)]

_write_phi_quarantine(dir, quarantine) ==
    IF ~quarantine.present \/ frame_empty(quarantine.cols)
    THEN [dir EXCEPT !.phi_quarantine = NoFile]
    ELSE [dir EXCEPT !.phi_quarantine = File(quarantine.cols)]

\* _write_clean_csv: the frame as interim_clean.csv, and the data dictionary
_write_clean_csv(dir, df) ==
    [dir EXCEPT !.interim_clean = File(df), !.data_dictionary = TRUE]

----------------------------------------------------------------------------
(* cli.py: manifests and the drift check *)

\* _write_manifest: run_manifest.json and run_manifest_<stamp>.json, the stamp
\* being the clock in whole seconds.  `manifests` lists the versioned files by
\* modification time; writing under an existing stamp replaces that file.
_write_manifest(dir, command, alerts, outputs, scale_scores, stamp) ==
    LET manifest == [ command |-> command, alerts_count |-> Len(alerts),
                      outputs |-> outputs, scale_scores |-> scale_scores ]
        others   == SelectSeq(dir.manifests, LAMBDA m : m.stamp # stamp)
    IN  [ manifest |-> manifest,
          dir      |-> [dir EXCEPT !.run_manifest = File(manifest),
                                   !.manifests = Append(others, [stamp |-> stamp,
                                                                 data |-> manifest])] ]

NoManifest == [present |-> FALSE, stamp |-> 0, data |-> <<>>]

_previous_manifest(dir, current_stamp) ==
    LET manifests == dir.manifests
    IN  IF Len(manifests) = 0 THEN NoManifest
        ELSE IF Len(manifests) = 1 THEN NoManifest
        ELSE LET prev == manifests[Len(manifests) - 1]
             IN  IF prev.stamp = current_stamp THEN NoManifest
                 ELSE [present |-> TRUE, stamp |-> prev.stamp, data |-> prev.data]

DRIFT_DELTA_THRESHOLD == 100

Abs(x) == IF x < 0 THEN -x ELSE x

\* variant of drift_skipped with the boundary skipped
drift_skipped_mut(change) == Abs(change) <= DRIFT_DELTA_THRESHOLD

\* variant of drift_skipped that compares the signed change
drift_skipped_signed(change) == change < DRIFT_DELTA_THRESHOLD

drift_skipped(change) == Abs(change) < DRIFT_DELTA_THRESHOLD

\* f"{change:.2f}": a minus sign for a negative value, no sign otherwise
format_2f(change) == [sign |-> IF change < 0 THEN "-" ELSE "", hundredths |-> Abs(change)]

prev_entry(previous_scores, name) ==
    LET hits == SelectSeq(previous_scores, LAMBDA e : e.name = name)
    IN  hits[Len(hits)]

drifted(current_scores, previous_scores) ==
    SelectSeq(current_scores, LAMBDA e :
        /\ e.name # ""
        /\ \E k \in 1..Len(previous_scores) : previous_scores[k].name = e.name
        /\ ~drift_skipped(e.mean - prev_entry(previous_scores, e.name).mean))

_run_drift_check(dir, manifest_stamp, manifest_data) ==
    LET previous == _previous_manifest(dir, manifest_stamp)
        quiet    == [alerts |-> <<>>, records |-> <<>>, dir |-> dir, previous |-> previous]
    IN  IF ~previous.present THEN quiet
        ELSE LET current_scores  == manifest_data.scale_scores
                 previous_scores == previous.data.scale_scores
             IN  IF current_scores = <<>> \/ previous_scores = <<>> THEN quiet
                 ELSE LET hit == drifted(current_scores, previous_scores)
                          change(e) == e.mean - prev_entry(previous_scores, e.name).mean
                          records == [i \in 1..Len(hit) |->
                              [ scale         |-> hit[i].name,
                                previous_mean |-> prev_entry(previous_scores, hit[i].name).mean,
                                current_mean  |-> hit[i].mean,
                                delta         |-> change(hit[i]) ]]
                          alerts == [i \in 1..Len(hit) |->
                              [ type    |-> "drift",
                                scale   |-> hit[i].name,
                                delta   |-> change(hit[i]),
                                message |-> <<hit[i].name, " mean changed by ",
                                              format_2f(change(hit[i])), " vs last run">> ]]
                      IN  [ alerts   |-> alerts,
                            records  |-> records,
                            dir      |-> [dir EXCEPT !.drift_json =
                                             IF records # <<>> THEN File(records) ELSE NoFile],
                            previous |-> previous ]

----------------------------------------------------------------------------
(* scales.py: the scale registry and the scoring step *)

phq9_items ==
    << "phq9_item1", "phq9_item2", "phq9_item3", "phq9_item4", "phq9_item5",
       "phq9_item6", "phq9_item7", "phq9_item8", "phq9_item9" >>

gad7_items ==
    << "gad7_item1", "gad7_item2", "gad7_item3", "gad7_item4", "gad7_item5",
       "gad7_item6", "gad7_item7" >>

\* the dataclass with its defaults: nothing reversed, no item bounds, no
\* cutoffs.  Cutoffs are the dict's (label, text) pairs in insertion order.
ScaleDefinition(name, items, method, output) ==
    [ name |-> name, items |-> items, method |-> method, output |-> output,
      reverse |-> <<>>, min_item |-> Absent, max_item |-> Absent, cutoffs |-> <<>> ]

phq9_cutoffs ==
    << [label |-> "minimal",           text |-> <<"0", "-", "4">>],
       [label |-> "mild",              text |-> <<"5", "-", "9">>],
       [label |-> "moderate",          text |-> <<"1", "0", "-", "1", "4">>],
       [label |-> "moderately_severe", text |-> <<"1", "5", "-", "1", "9">>],
       [label |-> "severe",            text |-> <<"2", "0", "-", "2", "7">>] >>

gad7_cutoffs ==
    << [label |-> "minimal",  text |-> <<"0", "-", "4">>],
       [label |-> "mild",     text |-> <<"5", "-", "9">>],
       [label |-> "moderate", text |-> <<"1", "0", "-", "1", "4">>],
       [label |-> "severe",   text |-> <<"1", "5", "-", "2", "1">>] >>

SCALE_LIBRARY ==
    [ n \in {"phq9", "gad7"} |->
        IF n = "phq9"
        THEN [ScaleDefinition("phq9", phq9_items, "sum", Absent) EXCEPT
                 !.min_item = Some(0), !.max_item = Some(3), !.cutoffs = phq9_cutoffs]
        ELSE [ScaleDefinition("gad7", gad7_items, "sum", Absent) EXCEPT
                 !.min_item = Some(0), !.max_item = Some(3), !.cutoffs = gad7_cutoffs] ]

\* ScaleDefinition.output_column: self.output or f"{self.name}_score"
output_column(definition) ==
    IF definition.output.present THEN definition.output.value
    ELSE CASE definition.name = "phq9" -> "phq9_score"
           [] definition.name = "gad7" -> "gad7_score"
           [] OTHER -> "_score"

\* lines 72-75 for one value of column col: one reversal for each time the
\* column is listed in definition.reverse.  Item values here are whole
\* numbers, on which the float subtraction is exact (see float_sub below for
\* the arithmetic on other values).
reverse_item(definition, col, value) ==
    LET listed == Cardinality({k \in 1..Len(definition.reverse) : definition.reverse[k] = col})
    IN  IF /\ listed % 2 = 1
           /\ definition.max_item.present /\ definition.min_item.present
        THEN definition.max_item.value + definition.min_item.value - value
        ELSE value

\* row r of `values` after lines 70-75: the numeric coercion of the item
\* columns (what does not parse is missing), designated items reversed
row_values(df, definition, r) ==
    [ i \in 1..Len(definition.items) |->
        LET col  == definition.items[i]
            cell == column(df, col).cells[r]
        IN  IF IsNumeric(cell) THEN Some(reverse_item(definition, col, Num(cell)))
            ELSE Absent ]

RECURSIVE sum_present(_)
sum_present(values) ==
    IF values = <<>> THEN 0
    ELSE (IF Head(values).present THEN Head(values).value ELSE 0) + sum_present(Tail(values))

count_present(values) == Len(SelectSeq(values, LAMBDA v : v.present))

\* NaN: the mean of a row without a value
NaN == [nan |-> TRUE, num |-> 0, den |-> 1]

Ratio(num, den) == [nan |-> FALSE, num |-> num, den |-> den]

\* variant of row_score: the mean divides by the number of items
row_score_mut(definition, values) ==
    IF definition.method = "mean"
    THEN IF count_present(values) = 0 THEN NaN
         ELSE Ratio(sum_present(values), Len(values))
    ELSE Ratio(sum_present(values), 1)

\* lines 77-80 for one row: values.mean(axis=1, skipna=True) or
\* values.sum(axis=1, skipna=True), as the quotient sum / count
row_score(definition, values) ==
    IF definition.method = "mean"
    THEN IF count_present(values) = 0 THEN NaN
         ELSE Ratio(sum_present(values), count_present(values))
    ELSE Ratio(sum_present(values), 1)

\* lines 70-80: the score of every row
score_rows(df, definition) ==
    [ r \in 1..Len(df[1].cells) |-> row_score(definition, row_values(df, definition, r)) ]

\* df[out_col] = score
assign_column(df, name, cells) ==
    IF name \in columns(df)
    THEN [i \in 1..Len(df) |-> IF df[i].name = name
                               THEN [name |-> name, text |-> FALSE, cells |-> cells]
                               ELSE df[i]]
    ELSE Append(df, [name |-> name, text |-> FALSE, cells |-> cells])

\* what a call hands back: the frame and the metadata it returns, or the
\* exception it raises (its kind, the name and the list its message carries)
\* with the caller's frame as the call leaves it
NotRaised(df, metadata) ==
    [raised |-> "", name |-> "", detail |-> <<>>, df |-> df, metadata |-> metadata]

Raised(kind, name, detail, df) ==
    [raised |-> kind, name |-> name, detail |-> detail, df |-> df, metadata |-> <<>>]

\* available_scales: sorted(SCALE_LIBRARY.keys())
available_scales == sorted(DOMAIN SCALE_LIBRARY)

\* variant of missing_items: lists the item columns that are present
missing_items_mut(definition, df) ==
    sorted(Range(definition.items) \cap columns(df))

\* items = [c for c in definition.items if c in df.columns]
\* missing = sorted(set(definition.items) - set(items))
missing_items(definition, df) ==
    LET items == SelectSeq(definition.items, LAMBDA c : c \in columns(df))
    IN  sorted(Range(definition.items) \ Range(items))

\* the loop of apply_scale_scores.  Every definition it can reach is a library
\* definition (a sum), so the cells of the output column are whole numbers.
RECURSIVE score_each(_, _, _, _)
score_each(df0, df, names, metadata) ==
    IF names = <<>> THEN NotRaised(df, metadata)
    ELSE LET name == Head(names)
         IN  IF name \notin DOMAIN SCALE_LIBRARY
             THEN Raised("SystemExit: Unknown scale", name, available_scales, df0)
             ELSE LET definition == SCALE_LIBRARY[name]
                      items == SelectSeq(definition.items, LAMBDA c : c \in columns(df))
                  IN  IF Len(items) # Len(definition.items)
                      THEN Raised("SystemExit: Missing items", name,
                                  missing_items(definition, df), df0)
                      ELSE LET out_col == output_column(definition)
                               scores == score_rows(df, definition)
                               cells == [r \in 1..Len(scores) |-> Str(scores[r].num)]
                           IN  score_each(df0, assign_column(df, out_col, cells), Tail(names),
                                          Append(metadata,
                                                 [ name          |-> definition.name,
                                                   output_column |-> out_col,
                                                   method        |-> definition.method,
                                                   cutoffs       |-> definition.cutoffs,
                                                   items         |-> definition.items ]))

apply_scale_scores(df, names) ==
    IF names = <<>> THEN NotRaised(df, <<>>) ELSE score_each(df, df, names, <<>>)

\* the parameters of apply_scale_scores
apply_scale_scores_params == <<"df", "names">>

\* a call with positional arguments binds when the function has a parameter
\* for each of them; otherwise Python raises TypeError before the body runs
binds(params, positional) == Len(positional) <= Len(params)

\* _prepare_dataframe: the PHI scan, then the scoring call of line 210 with
\* the frame, the requested names and the custom definitions as arguments
_prepare_dataframe(df_raw, score_scales, custom_scale_defs, phi_options) ==
    LET scan == scan_phi_columns(df_raw, phi_options)
        positional == <<scan.df, score_scales, custom_scale_defs>>
    IN  IF score_scales = <<>> THEN NotRaised(scan.df, <<>>)
        ELSE IF ~binds(apply_scale_scores_params, positional)
             THEN Raised("TypeError", "apply_scale_scores", <<>>, scan.df)
             ELSE apply_scale_scores(positional[1], positional[2])

----------------------------------------------------------------------------
(* cli.py: the run handlers.  An invocation's input `in` is what main() hands *)
(* the handler (command-line flags and configuration) together with the raw  *)
(* frame.  The scoring call of line 210 does not bind its arguments (see     *)
(* _prepare_dataframe above), so no invocation gets past it with a scale     *)
(* requested; the handlers are modelled for what the scoring step hands on   *)
(* when it returns, and that result (the scored columns and their metadata)  *)
(* is part of the input, in.scored.                                          *)

\* _prepare_dataframe, lines 204-219: the PHI scan, then the columns and the
\* metadata of the scoring step (in.scored) added to the frame and the
\* provenance.
prepared(in) ==
    LET scan == scan_phi_columns(in.df, in.phi_options)
    IN  [ df            |-> scan.df \o [i \in 1..Len(in.scored) |->
                               [ name  |-> in.scored[i].output_column, text |-> FALSE,
                                 cells |-> in.scored[i].cells ]],
          phi_columns   |-> scan.flagged,
          scales_scored |-> [i \in 1..Len(in.scored) |->
                               [ name |-> in.scored[i].name,
                                 output_column |-> in.scored[i].output_column ]],
          quarantine    |-> scan.quarantine ]

_ensure_score_cols(score_cols, scored) ==
    LET add == SelectSeq(scored, LAMBDA e : e.output_column \notin Range(score_cols))
    IN  score_cols \o [i \in 1..Len(add) |-> add[i].output_column]

NoDrift == [alerts |-> <<>>, records |-> <<>>, previous |-> NoManifest]

Outcome(cmd, status, dir, alerts, produced, dc, scale_scores) ==
    [ cmd |-> cmd, status |-> status, dir |-> dir, alerts |-> alerts, produced |-> produced,
      drift |-> dc.records, previous |-> dc.previous, scale_scores |-> scale_scores ]

NothingProduced == [report |-> <<>>, phi |-> <<>>, drift |-> <<>>]

Stopped(cmd, status, dir) == Outcome(cmd, status, dir, <<>>, NothingProduced, NoDrift, <<>>)

quarantined(prep) == prep.quarantine.present /\ ~frame_empty(prep.quarantine.cols)

\* lines 546-575 of _run_stats and 633-668 of _run_full: report, quarantine
\* file, manifest, drift check, alerts.json
report_and_manifest(cmd, dir, in, prep, cols, outputs, stamp) ==
    LET phi_alerts == _format_phi_alerts(prep.phi_columns)
        wr == _write_report(dir, prep.df, cols, in.overall, in.scales, in.alerts,
                            phi_alerts, prep.scales_scored)
    IN  IF ~wr.ok THEN Stopped(cmd, "invalid", dir)
        ELSE LET d2  == _write_phi_quarantine(wr.dir, prep.quarantine)
                 out == outputs \cup (IF wr.alerts # <<>> THEN {"alerts.json"} ELSE {})
                                \cup (IF quarantined(prep) THEN {"phi_quarantine.csv"} ELSE {})
                 wm  == _write_manifest(d2, cmd, wr.alerts, out, wr.scale_scores, stamp)
                 dc  == _run_drift_check(wm.dir, stamp, wm.manifest)
                 alerts == IF dc.alerts # <<>> THEN list_extend(wr.alerts, dc.alerts)
                           ELSE wr.alerts
                 d3  == IF dc.alerts # <<>> THEN _persist_alerts(dc.dir, alerts) ELSE dc.dir
             IN  Outcome(cmd, "done", d3, alerts,
                         [report |-> wr.report, phi |-> phi_alerts, drift |-> dc.alerts],
                         dc, wr.scale_scores)

\* lines 426-435 of _run_clean and 610-618 of _run_plot: quarantine file,
\* manifest without alerts or scale scores, drift check
manifest_only(cmd, dir, prep, outputs, stamp) ==
    LET d2  == _write_phi_quarantine(dir, prep.quarantine)
        out == outputs \cup (IF quarantined(prep) THEN {"phi_quarantine.csv"} ELSE {})
        wm  == _write_manifest(d2, cmd, <<>>, out, <<>>, stamp)
        dc  == _run_drift_check(wm.dir, stamp, wm.manifest)
        d3  == IF dc.alerts # <<>> THEN _persist_alerts(dc.dir, dc.alerts) ELSE dc.dir
    IN  Outcome(cmd, "done", d3, dc.alerts,
                [report |-> <<>>, phi |-> <<>>, drift |-> dc.alerts], dc, <<>>)

\* variant of gate without the dry-run exit
gate_mut(in, prep) ==
    IF _guard_against_phi(prep.quarantine, prep.phi_columns,
                          in.allow_phi_export \/ in.dry_run).aborted
    THEN "phi_abort"
    ELSE "go"

\* lines 422-425 (542-545, 600-603, 629-632): the guard, then the dry-run exit
gate(in, prep) ==
    IF _guard_against_phi(prep.quarantine, prep.phi_columns,
                          in.allow_phi_export \/ in.dry_run).aborted
    THEN "phi_abort"
    ELSE IF in.dry_run THEN "dry_run" ELSE "go"

_run_clean(dir, in, stamp) ==
    LET prep == prepared(in)
    IN  IF gate(in, prep) # "go" THEN Stopped("clean", gate(in, prep), dir)
        ELSE manifest_only("clean", _write_clean_csv(dir, prep.df), prep,
                           {"interim_clean.csv", "data_dictionary.csv"}, stamp)

_run_stats(dir, in, stamp) ==
    LET prep == prepared(in)
        cols == _ensure_score_cols(in.score_cols, prep.scales_scored)
    IN  IF gate(in, prep) # "go" THEN Stopped("stats", gate(in, prep), dir)
        ELSE report_and_manifest("stats", [dir EXCEPT !.data_dictionary = TRUE], in, prep,
                                 cols, {"report.json", "data_dictionary.csv"}, stamp)

_run_plot(dir, in, stamp) ==
    LET prep == prepared(in)
        cols == _ensure_score_cols(in.score_cols, prep.scales_scored)
    IN  IF gate(in, prep) # "go" THEN Stopped("plot", gate(in, prep), dir)
        ELSE IF ~_validate_score_columns(prep.df, cols).ok THEN Stopped("plot", "invalid", dir)
        ELSE manifest_only("plot", dir, prep, {}, stamp)

_run_full(dir, in, stamp) ==
    LET prep == prepared(in)
        cols == _ensure_score_cols(in.score_cols, prep.scales_scored)
    IN  IF gate(in, prep) # "go" THEN Stopped("run", gate(in, prep), dir)
        ELSE report_and_manifest("run", _write_clean_csv(dir, prep.df), in, prep, cols,
                                 {"interim_clean.csv", "data_dictionary.csv", "report.json"},
                                 stamp)

----------------------------------------------------------------------------
(* The run specifications *)

MaxRuns == 2
MaxDriftRuns == 3

EmptyDir ==
    [ interim_clean   |-> NoFile,
      data_dictionary |-> FALSE,
      report          |-> NoFile,
      alerts_json     |-> NoFile,
      drift_json      |-> NoFile,
      phi_quarantine  |-> NoFile,
      run_manifest    |-> NoFile,
      manifests       |-> <<>> ]

NoPhiOptions == [extra_patterns |-> <<>>, keywords |-> <<>>, ignore_columns |-> <<>>,
                 allow_columns |-> <<>>]

NoAlertRules ==
    [ missing_pct |-> Absent,
      reliability |-> [present |-> FALSE, cronbach_alpha_min |-> Absent,
                       mcdonald_omega_min |-> Absent] ]

SomeAlertRules ==
    [ missing_pct |-> Some(5000),
      reliability |-> [present |-> TRUE, cronbach_alpha_min |-> Some(70),
                       mcdonald_omega_min |-> Absent] ]

ScoreColumn == [name |-> score, text |-> FALSE, cells |-> <<"1", "2">>]
NoteColumn == [name |-> note, text |-> TRUE, cells |-> <<"ok", NA>>]
ContactColumn == [name |-> contact, text |-> TRUE, cells |-> <<"a@x.com", "b@y.com">>]

ScoreScale(alpha) ==
    [name |-> "phq9", items |-> <<score>>, cronbach_alpha |-> alpha, mcdonald_omega |-> Absent]

Scored(name, out, cells) == [name |-> name, output_column |-> out, cells |-> cells]

NoMetrics == [cronbach_alpha |-> Absent, mcdonald_omega |-> Absent]

\* Inputs of the drift specification: stats and clean runs over a frame without
\* PHI, zero or more seconds after the previous invocation; the two library
\* scales scored or not, their output columns with means 0.00, 0.50 and 1.50;
\* the reliability section configured or (for one scored scale) not.
ScoreCells == {<<"0", "0">>, <<"0", "1">>, <<"1", "2">>}

ScoredSets ==
    {<<>>}
    \cup { <<Scored("phq9", "phq9_score", c)>> : c \in ScoreCells }
    \cup { <<Scored("gad7", "gad7_score", c)>> : c \in {<<"0", "0">>, <<"1", "2">>} }
    \cup { <<Scored("phq9", "phq9_score", c), Scored("gad7", "gad7_score", d)>> :
             c \in ScoreCells, d \in {<<"0", "0">>, <<"1", "2">>} }

DriftBase ==
    [ elapsed |-> 1, df |-> <<ScoreColumn>>, phi_options |-> NoPhiOptions,
      allow_phi_export |-> FALSE, dry_run |-> FALSE, score_cols |-> <<score>>,
      scored |-> <<>>, scales |-> <<ScoreScale(Absent)>>, overall |-> NoMetrics,
      alerts |-> NoAlertRules ]

DriftInputs ==
    { [DriftBase EXCEPT !.elapsed = e, !.scored = sc] : e \in {0, 1}, sc \in ScoredSets }
    \cup { [DriftBase EXCEPT !.elapsed = e, !.scales = <<>>,
                             !.scored = <<Scored("phq9", "phq9_score", <<"1", "2">>)>>] :
             e \in {0, 1} }

DriftCleanInputs == { [DriftBase EXCEPT !.elapsed = e] : e \in {0, 1} }

\* Inputs of the run specification: every command; a frame with a column with
\* missing values, with or without a PHI column (export allowed, refused, or
\* the column allow-listed), or without the score column; a dry run; alert
\* rules, reliability section and a scored scale (mean 0.00 or 1.50) or none.
RunBase ==
    [ elapsed |-> 1, df |-> <<NoteColumn, ScoreColumn>>, phi_options |-> NoPhiOptions,
      allow_phi_export |-> FALSE, dry_run |-> FALSE, score_cols |-> <<score>>,
      scored |-> <<>>, scales |-> <<>>, overall |-> NoMetrics, alerts |-> NoAlertRules ]

PhiFrame == <<ContactColumn, NoteColumn, ScoreColumn>>

Exports ==
    { RunBase,
      [RunBase EXCEPT !.df = PhiFrame, !.allow_phi_export = TRUE],
      [RunBase EXCEPT !.df = PhiFrame, !.phi_options.allow_columns = <<contact>>] }

RunInputs ==
    Exports
    \cup { [x EXCEPT !.elapsed = e, !.alerts = SomeAlertRules,
                     !.scales = <<ScoreScale(Some(60))>>,
                     !.scored = <<Scored("phq9", "phq9_score", c)>>] :
             x \in Exports, e \in {0, 1}, c \in {<<"0", "0">>, <<"1", "2">>} }
    \cup { [x EXCEPT !.dry_run = TRUE] : x \in Exports }
    \cup { [RunBase EXCEPT !.df = PhiFrame],
           [RunBase EXCEPT !.df = PhiFrame, !.dry_run = TRUE],
           [RunBase EXCEPT !.df = <<NoteColumn>>] }

InitRuns ==
    /\ args = Idle
    /\ ret = Idle
    /\ now = 0
    /\ outdir = EmptyDir
    /\ last = Stopped("none", "none", EmptyDir)
    /\ nruns = 0

\* main: one invocation of the program.  The handler of the command is looked
\* up and called, action(args); its result for the input `in` becomes the state
\* of the output location; last keeps what the run did and (in last.dir) the
\* output location as the run found it.
Invoke(action(_, _, _), Inputs, bound) ==
    /\ nruns < bound
    /\ \E in \in Inputs :
         LET r == action(outdir, in, now + in.elapsed)
         IN  /\ now' = now + in.elapsed
             /\ outdir' = r.dir
             /\ last' = [r EXCEPT !.dir = outdir]
    /\ nruns' = nruns + 1
    /\ UNCHANGED <<args, ret>>

RunClean(Inputs, bound) == Invoke(_run_clean, Inputs, bound)
RunStats(Inputs, bound) == Invoke(_run_stats, Inputs, bound)
RunPlot(Inputs, bound)  == Invoke(_run_plot, Inputs, bound)
RunFull(Inputs, bound)  == Invoke(_run_full, Inputs, bound)

Next ==
    \/ RunClean(RunInputs, MaxRuns)
    \/ RunStats(RunInputs, MaxRuns)
    \/ RunPlot(RunInputs, MaxRuns)
    \/ RunFull(RunInputs, MaxRuns)

Spec == InitRuns /\ [][Next]_vars

NextDrift ==
    \/ RunClean(DriftCleanInputs, MaxDriftRuns)
    \/ RunStats(DriftInputs, MaxDriftRuns)

SpecDrift == InitRuns /\ [][NextDrift]_vars

----------------------------------------------------------------------------
(* PHI handling and threshold alerts: properties of SpecPhi and SpecAlerts *)

\* C1: every column of the findings list that is not allow-listed is gone from
\* the returned working dataset and sits, with its raw values, in the returned
\* quarantine dataset; every allow-listed column with a finding is in the
\* findings list, stays in the working dataset with its values and is not
\* quarantined.
C1_QuarantineUnlessAllowed ==
    ret.fn = "scan_phi_columns" =>
        LET out     == ret.scan
            allow   == Range(args.options.allow_columns)
            findcol == {out.flagged[i].column : i \in 1..Len(out.flagged)}
        IN  /\ \A c \in Range(args.df) :
                 (column_scanned(c, args.options) /\ column_matches(c, args.options) # <<>>)
                     => c.name \in findcol
            /\ \A c \in Range(args.df) :
                 c.name \in findcol =>
                     IF c.name \notin allow
                     THEN /\ c \notin Range(out.df)
                          /\ out.quarantine.present
                          /\ c \in Range(out.quarantine.cols)
                     ELSE /\ c \in Range(out.df)
                          /\ c \notin Range(out.quarantine.cols)

C1_Witness ==
    /\ ret.fn = "scan_phi_columns"
    /\ \E i, j \in 1..Len(ret.scan.flagged) :
         /\ ret.scan.flagged[i].column \in Range(args.options.allow_columns)
         /\ ret.scan.flagged[j].column \notin Range(args.options.allow_columns)
         /\ ret.scan.quarantine.present

C8_MissingnessInclusive ==
    ret.fn = "_missing_alerts" =>
        /\ \A i \in 1..Len(ret.missing.percent) :
             LET e    == ret.missing.percent[i]
                 mine == SelectSeq(ret.alerts, LAMBDA a : a.column = e.column)
             IN  IF e.value >= args.threshold
                 THEN mine = << [type |-> "missingness", column |-> e.column,
                                 percent |-> e.value, threshold |-> args.threshold] >>
                 ELSE mine = <<>>
        /\ \A i \in 1..Len(ret.alerts) :
             \E j \in 1..Len(ret.missing.percent) :
                ret.alerts[i].column = ret.missing.percent[j].column

C8_Witness ==
    /\ ret.fn = "_missing_alerts"
    /\ args.threshold > 0
    /\ \E i, j \in 1..Len(ret.missing.percent) :
         /\ ret.missing.percent[i].value = args.threshold
         /\ ret.missing.percent[j].value < args.threshold
         /\ Len(ret.alerts) = 1
         /\ ret.alerts[1].column = ret.missing.percent[i].column

\* C9: for the overall metrics and for every named scale, each of alpha and
\* omega yields one reliability alert exactly when the metric is present, its
\* minimum is configured and the metric is strictly below the minimum.
C9_ReliabilityStrict ==
    ret.fn = "_reliability_alerts" =>
        LET targets == << [name |-> "overall", cronbach_alpha |-> args.overall.cronbach_alpha,
                           mcdonald_omega |-> args.overall.mcdonald_omega] >> \o args.scales
            due(value, limit) == value.present /\ limit.present /\ value.value < limit.value
            got(name, metric) ==
                Len(SelectSeq(ret.alerts, LAMBDA a : a.target = name /\ a.metric = metric))
        IN  /\ \A i \in 1..Len(targets) :
                 /\ got(targets[i].name, "cronbach_alpha") =
                      IF due(targets[i].cronbach_alpha, args.thresholds.cronbach_alpha_min)
                      THEN 1 ELSE 0
                 /\ got(targets[i].name, "mcdonald_omega") =
                      IF due(targets[i].mcdonald_omega, args.thresholds.mcdonald_omega_min)
                      THEN 1 ELSE 0
            /\ \A i \in 1..Len(ret.alerts) :
                 /\ ret.alerts[i].type = "reliability"
                 /\ \E j \in 1..Len(targets) : ret.alerts[i].target = targets[j].name

C9_Witness ==
    /\ ret.fn = "_reliability_alerts"
    /\ args.thresholds.cronbach_alpha_min = Some(70)
    /\ args.thresholds.mcdonald_omega_min = Some(70)
    /\ args.overall.cronbach_alpha = Some(70)
    /\ args.overall.mcdonald_omega = Some(60)
    /\ Len(args.scales) = 1
    /\ args.scales[1].cronbach_alpha = Some(60)
    /\ args.scales[1].mcdonald_omega = Absent
    /\ Len(ret.alerts) = 2

----------------------------------------------------------------------------
(* Drift and alert assembly: properties of SpecDrift and Spec *)

\* C3: in a completed run whose drift check loaded a preceding manifest, every
\* scale named in both the run's scale-score summaries and that manifest's
\* has delta = current mean - previous mean and gets exactly one drift record
\* and one drift alert carrying that delta when |delta| >= 1.00, and none
\* otherwise; a scale named on one side only gets neither.
C3_DriftThreshold ==
    (last.status = "done" /\ last.previous.present) =>
        LET cur == last.scale_scores
            prev == last.previous.data.scale_scores
            names(s) == {s[i].name : i \in 1..Len(s)}
            mean(s, n) == s[CHOOSE i \in 1..Len(s) : s[i].name = n].mean
            recs(n) == SelectSeq(last.drift, LAMBDA r : r.scale = n)
            als(n) == SelectSeq(last.produced.drift, LAMBDA a : a.scale = n)
        IN  /\ \A n \in names(cur) \cap names(prev) :
                 LET delta == mean(cur, n) - mean(prev, n)
                 IN  IF delta >= 100 \/ delta <= -100
                     THEN /\ Len(recs(n)) = 1 /\ recs(n)[1].delta = delta
                          /\ recs(n)[1].current_mean = mean(cur, n)
                          /\ recs(n)[1].previous_mean = mean(prev, n)
                          /\ Len(als(n)) = 1 /\ als(n)[1].delta = delta
                          /\ als(n)[1].type = "drift"
                     ELSE recs(n) = <<>> /\ als(n) = <<>>
            /\ \A n \in (names(cur) \cup names(prev)) \ (names(cur) \cap names(prev)) :
                 recs(n) = <<>> /\ als(n) = <<>>

\* a run in which phq9 moved by exactly 1.00 and was recorded while gad7,
\* scored in both runs, did not move and was not
C3_Witness ==
    /\ last.status = "done" /\ last.previous.present
    /\ \E i \in 1..Len(last.drift) :
         last.drift[i].scale = "phq9" /\ last.drift[i].delta \in {100, -100}
    /\ \E i \in 1..Len(last.scale_scores) : last.scale_scores[i].name = "gad7"
    /\ \E i \in 1..Len(last.previous.data.scale_scores) :
         last.previous.data.scale_scores[i].name = "gad7"
    /\ \A i \in 1..Len(last.drift) : last.drift[i].scale # "gad7"

\* C4: a completed run's drift check compares against the manifest of the
\* immediately preceding completed run in the output location (the content of
\* run_manifest.json when the run started), never against an older one.
C4_ComparesWithPrecedingRun ==
    (last.status = "done" /\ last.previous.present) =>
        /\ last.dir.run_manifest.present
        /\ last.previous.data = last.dir.run_manifest.value

\* C5: after a completed run, drift.json is in the output location only if
\* that run recorded a drift.
C5_NoStaleDriftArtifact ==
    last.status = "done" => (outdir.drift_json.present => last.drift # <<>>)

\* C6: the alert list of a completed run is its missingness alerts, then its
\* reliability alerts, then its PHI alerts, then its drift alerts: nothing
\* dropped, nothing merged, no later kind before an earlier kind.
C6_AlertOrder ==
    last.status = "done" =>
        LET rank(a) == CASE a.type = "missingness" -> 1
                         [] a.type = "reliability" -> 2
                         [] a.type = "phi"         -> 3
                         [] a.type = "drift"       -> 4
        IN  /\ last.alerts = last.produced.report \o last.produced.phi \o last.produced.drift
            /\ \A i, j \in 1..Len(last.alerts) :
                 i < j => rank(last.alerts[i]) <= rank(last.alerts[j])
            /\ \A i \in 1..Len(last.produced.report) :
                 last.produced.report[i].type \in {"missingness", "reliability"}

\* a run whose alert list holds all four kinds
C6_Witness ==
    /\ last.status = "done"
    /\ \A t \in {"missingness", "reliability", "phi", "drift"} :
         \E i \in 1..Len(last.alerts) : last.alerts[i].type = t

----------------------------------------------------------------------------
(* The scoring specification: _prepare_dataframe and apply_scale_scores on   *)
(* frames with the items of both library scales (or without some of gad7's), *)
(* requests naming library scales, a custom scale or an unknown one, with    *)
(* and without the custom definition.                                        *)

ItemCells == {<<"0", "1">>, <<"3", "3">>, <<"1", NA>>}

ItemFrame(items, cells) ==
    [i \in 1..Len(items) |-> [name |-> items[i], text |-> FALSE, cells |-> cells]]

ScoreFrames ==
    { ItemFrame(phq9_items \o gad7_items, c) : c \in ItemCells }
    \cup { ItemFrame(phq9_items \o SubSeq(gad7_items, 1, 6), <<"0", "1">>),
           ItemFrame(phq9_items \o SubSeq(gad7_items, 3, 6), <<"0", "1">>) }

phq2_custom ==
    ScaleDefinition("phq2_custom", <<"phq9_item1", "phq9_item2">>, "sum", Some("phq2_score"))

ScoreRequests ==
    { <<>>, <<"phq9">>, <<"gad7">>, <<"phq9", "gad7">>, <<"phq2_custom">>,
      <<"phq9", "phq2_custom">>, <<"sleep">>, <<"phq9", "sleep">> }

InitScore ==
    /\ args \in [ fn : {"_prepare_dataframe", "apply_scale_scores"},
                  df : ScoreFrames,
                  score_scales : ScoreRequests,
                  custom_scale_defs : {<<>>, <<phq2_custom>>} ]
    /\ ret = Idle
    /\ InitRun

PrepareDataframe ==
    /\ ret = Idle
    /\ args.fn = "_prepare_dataframe"
    /\ ret' = [ fn |-> "_prepare_dataframe",
                out |-> _prepare_dataframe(args.df, args.score_scales,
                                           args.custom_scale_defs, NoPhiOptions) ]
    /\ UNCHANGED <<args, now, outdir, last, nruns>>

ApplyScaleScores ==
    /\ ret = Idle
    /\ args.fn = "apply_scale_scores"
    /\ ret' = [ fn |-> "apply_scale_scores",
                out |-> apply_scale_scores(args.df, args.score_scales) ]
    /\ UNCHANGED <<args, now, outdir, last, nruns>>

NextScore == PrepareDataframe \/ ApplyScaleScores

SpecScore == InitScore /\ [][NextScore]_vars

\* C10: when every requested scale is in the built-in library or the custom
\* definitions and its items are in the frame, preparing the frame raises
\* nothing, and a requested scale defined only by the custom definitions is
\* scored: it is in the scoring metadata and its output column is in the frame.
C10_CustomDefinitionsExtendRegistry ==
    ret # Idle /\ ret.fn = "_prepare_dataframe" =>
        LET custom == args.custom_scale_defs
            definition(n) ==
                IF \E i \in 1..Len(custom) : custom[i].name = n
                THEN custom[CHOOSE i \in 1..Len(custom) : custom[i].name = n]
                ELSE SCALE_LIBRARY[n]
            registry == DOMAIN SCALE_LIBRARY \cup {custom[i].name : i \in 1..Len(custom)}
            requested == Range(args.score_scales)
            scorable == /\ requested \subseteq registry
                        /\ \A n \in requested :
                             Range(definition(n).items) \subseteq columns(args.df)
        IN  (scorable /\ requested \ DOMAIN SCALE_LIBRARY # {}) =>
              /\ ret.out.raised = ""
              /\ \A n \in requested \ DOMAIN SCALE_LIBRARY :
                   /\ \E k \in 1..Len(ret.out.metadata) : ret.out.metadata[k].name = n
                   /\ output_column(definition(n)) \in columns(ret.out.df)

\* C11: apply_scale_scores fails when a requested name is not a registered
\* scale, with an error that lists the available scales, and when a requested
\* scale lacks item columns in the frame, with an error that lists exactly the
\* missing item columns; in either case it returns no scored frame and the
\* caller's frame has gained no column.
C11_ScoringFailsCleanly ==
    ret # Idle /\ ret.fn = "apply_scale_scores" =>
        LET names == args.score_scales
            unknown(n) == n \notin DOMAIN SCALE_LIBRARY
            lacking(n) == {c \in Range(SCALE_LIBRARY[n].items) : c \notin columns(args.df)}
            fails(n) == unknown(n) \/ lacking(n) # {}
            failing == {i \in 1..Len(names) : fails(names[i])}
        IN  failing # {} =>
              LET n == names[CHOOSE i \in failing : \A j \in failing : i <= j]
              IN  /\ ret.out.raised # ""
                  /\ ret.out.name = n
                  /\ unknown(n) => /\ ret.out.raised = "SystemExit: Unknown scale"
                                   /\ Range(ret.out.detail) = DOMAIN SCALE_LIBRARY
                  /\ ~unknown(n) => /\ ret.out.raised = "SystemExit: Missing items"
                                    /\ Range(ret.out.detail) = lacking(n)
                                    /\ Len(ret.out.detail) = Cardinality(lacking(n))
                  /\ ret.out.metadata = <<>>
                  /\ ret.out.df = args.df

\* a second requested scale lacks two item columns after the first was scored
C11_Witness ==
    /\ ret # Idle /\ ret.fn = "apply_scale_scores"
    /\ args.score_scales = <<"phq9", "gad7">>
    /\ ret.out.raised = "SystemExit: Missing items"
    /\ ret.out.detail = <<"gad7_item1", "gad7_item2", "gad7_item7">>

----------------------------------------------------------------------------
(* The row-scoring specification: lines 70-80 of apply_scale_scores for a    *)
(* two-item definition, summed or averaged, with or without a reversed item  *)
(* and item bounds, on frames whose cells are numbers, text or missing.      *)

MaxScoreRows == 2

RowCells == {"1", "3", "ok", NA}

RowFrames ==
    UNION { { << [name |-> "phq9_item1", text |-> FALSE, cells |-> a],
                 [name |-> "phq9_item2", text |-> FALSE, cells |-> b] >> :
              a \in [1..n -> RowCells], b \in [1..n -> RowCells] } : n \in 1..MaxScoreRows }

RowDefinitions ==
    { [ScaleDefinition("pair", <<"phq9_item1", "phq9_item2">>, m, Absent) EXCEPT
          !.reverse = rv, !.min_item = b[1], !.max_item = b[2]] :
      m \in {"sum", "mean"},
      rv \in {<<>>, <<"phq9_item2">>},
      b \in {<<Absent, Absent>>, <<Some(0), Some(3)>>, <<Some(1), Absent>>} }

InitRows ==
    /\ args \in [fn : {"score_rows"}, df : RowFrames, definition : RowDefinitions]
    /\ ret = Idle
    /\ InitRun

ScoreRows ==
    /\ ret = Idle
    /\ ret' = [fn |-> "score_rows", out |-> score_rows(args.df, args.definition)]
    /\ UNCHANGED <<args, now, outdir, last, nruns>>

NextRows == ScoreRows

SpecRows == InitRows /\ [][NextRows]_vars

\* C12: row by row, a sum scale scores the sum of the item values that are
\* present and numeric (missing values add nothing), and a mean scale scores
\* the average over the present values only: a row [1, missing] scores 1.
C12_RowwiseSumAndMean ==
    ret # Idle /\ ret.fn = "score_rows" =>
        \A r \in 1..Len(args.df[1].cells) :
            LET definition == args.definition
                cell(i) == args.df[i].cells[r]
                value(i) == reverse_item(definition, definition.items[i], Num(cell(i)))
                present == {i \in 1..2 : IsNumeric(cell(i))}
                total == (IF 1 \in present THEN value(1) ELSE 0)
                         + (IF 2 \in present THEN value(2) ELSE 0)
                got == ret.out[r]
            IN  /\ definition.method = "sum" =>
                      ~got.nan /\ got.num = total * got.den
                /\ (definition.method = "mean" /\ present # {}) =>
                      ~got.nan /\ got.num = total /\ got.den = Cardinality(present)
                /\ (definition.method = "mean" /\ present = {}) => got.nan

\* a mean scale, nothing reversed, on a row [1, missing]: the score is 1
C12_Witness ==
    /\ ret # Idle /\ ret.fn = "score_rows"
    /\ args.definition.method = "mean" /\ args.definition.reverse = <<>>
    /\ args.df[1].cells[1] = "1" /\ args.df[2].cells[1] = NA
    /\ ret.out[1] = Ratio(1, 1)

----------------------------------------------------------------------------
(* The arithmetic of the reverse step.  `values` is a float64 frame (line    *)
(* 70), so line 75 is a binary64 subtraction.  A binary64 value v with       *)
(* 1/16 <= v < 8 (or 0) is the string of its binary digits: position i has   *)
(* the weight 2^(3-i), and at most Precision consecutive positions from the  *)
(* leading 1 on are used.                                                    *)

Precision == 53

Width == 59

\* the first k binary digits of r/d (r < d), and what is left: long division,
\* the first half of the digits and then the rest
RECURSIVE expand(_, _, _)
expand(r, d, k) ==
    IF k = 0 THEN [bits |-> <<>>, rem |-> r]
    ELSE IF k = 1
    THEN LET bit == IF 2 * r >= d THEN 1 ELSE 0
         IN  [bits |-> <<bit>>, rem |-> 2 * r - bit * d]
    ELSE LET front == expand(r, d, k \div 2)
             back  == expand(front.rem, d, k - k \div 2)
         IN  [bits |-> front.bits \o back.bits, rem |-> back.rem]

\* one unit added at position i: the carry runs up to the nearest 0
increment(bits, i) ==
    LET zeros == {j \in 1..i : bits[j] = 0}
        stop  == CHOOSE j \in zeros : \A k \in zeros : k <= j
    IN  [j \in 1..Len(bits) |-> IF j = stop THEN 1
                                ELSE IF j > stop /\ j <= i THEN 0
                                ELSE bits[j]]

\* IEEE 754 round to nearest, ties to even: the Precision digits from the
\* leading 1 on are kept; `sticky` says that digits beyond `bits` are not all 0
round_to_nearest_even(bits, sticky) ==
    LET ones == {i \in 1..Len(bits) : bits[i] = 1}
    IN  IF ones = {} THEN [i \in 1..Width |-> 0]
        ELSE LET top   == CHOOSE i \in ones : \A j \in ones : i <= j
                 final == top + Precision - 1
                 kept  == [i \in 1..Width |->
                              IF i <= final /\ i <= Len(bits) THEN bits[i] ELSE 0]
                 guard == final < Len(bits) /\ bits[final + 1] = 1
                 rest  == sticky \/ \E j \in ones : j > final + 1
             IN  IF guard /\ (rest \/ bits[final] = 1) THEN increment(kept, final)
                 ELSE kept

\* the binary64 value nearest to n/d: what float() and pd.to_numeric make of
\* a decimal numeral
float(n, d) ==
    LET e == expand(n, 8 * d, Width + 1)
    IN  round_to_nearest_even(e.bits, e.rem # 0)

\* the digits of a - b (a >= b): position i lends to the positions below it
\* when, from there on, b is the larger
subtract(a, b) ==
    LET borrow(i) == \E k \in (i + 1)..Len(a) :
                        /\ a[k] < b[k]
                        /\ \A j \in (i + 1)..(k - 1) : a[j] = b[j]
    IN  [i \in 1..Len(a) |-> (a[i] - b[i] - (IF borrow(i) THEN 1 ELSE 0)) % 2]

\* a - b in binary64: the exact difference, rounded
float_sub(a, b) == round_to_nearest_even(subtract(a, b), FALSE)

Decimals == {"0.1", "0.5", "2.9"}

\* pd.to_numeric(errors="coerce") on one cell, as a float64 value
to_float(cell) ==
    CASE cell = "0.1" -> Some(float(1, 10))
      [] cell = "0.5" -> Some(float(5, 10))
      [] cell = "2.9" -> Some(float(29, 10))
      [] IsNumeric(cell) -> Some(float(Num(cell), 1))
      [] OTHER -> Absent

\* variant of reverse_code: a reversed value is max_item - value
RECURSIVE reverse_code_mut(_, _, _, _)
reverse_code_mut(definition, items, values, todo) ==
    IF todo = <<>> THEN values
    ELSE LET col == Head(todo)
             top == float(definition.max_item.value, 1)
             reversed ==
                 [ i \in 1..Len(values) |->
                     IF items[i] = col /\ values[i].present
                     THEN Some(float_sub(top, values[i].value))
                     ELSE values[i] ]
         IN  reverse_code_mut(definition, items,
                 IF /\ col \in Range(items)
                    /\ definition.max_item.present /\ definition.min_item.present
                 THEN reversed ELSE values,
                 Tail(todo))

\* lines 72-75 on one row of `values` (values[i] belongs to column items[i]):
\* for col in definition.reverse, with todo the columns still to come
RECURSIVE reverse_code(_, _, _, _)
reverse_code(definition, items, values, todo) ==
    IF todo = <<>> THEN values
    ELSE LET col == Head(todo)
             top == float(definition.max_item.value + definition.min_item.value, 1)
             reversed ==
                 [ i \in 1..Len(values) |->
                     IF items[i] = col /\ values[i].present
                     THEN Some(float_sub(top, values[i].value))
                     ELSE values[i] ]
         IN  reverse_code(definition, items,
                 IF /\ col \in Range(items)
                    /\ definition.max_item.present /\ definition.min_item.present
                 THEN reversed ELSE values,
                 Tail(todo))

----------------------------------------------------------------------------
(* The reverse-coding specification: one row of two item cells (whole        *)
(* numbers, decimals, missing) coerced, then the reverse step applied to it  *)
(* again and again; values lie between 0 and max_item + min_item.            *)

MaxReverse == 2

DecimalCells == {"0", "2", "3", NA} \cup Decimals

ReverseDefinitions ==
    { [ScaleDefinition("pair", <<"phq9_item1", "phq9_item2">>, "sum", Absent) EXCEPT
          !.reverse = rv, !.min_item = b[1], !.max_item = b[2]] :
      rv \in {<<>>, <<"phq9_item2">>, <<"phq9_item2", "phq9_item1">>},
      b \in {<<Absent, Absent>>, <<Some(0), Some(3)>>, <<Some(1), Some(3)>>,
             <<Some(0), Absent>>} }

InitReverse ==
    /\ args \in [ fn : {"reverse_code"}, cells : [1..2 -> DecimalCells],
                  definition : ReverseDefinitions ]
    /\ ret = Idle
    /\ InitRun

Coerce ==
    /\ ret = Idle
    /\ ret' = [ fn |-> "reverse_code", applied |-> 0,
                values |-> [i \in 1..2 |-> to_float(args.cells[i])] ]
    /\ UNCHANGED <<args, now, outdir, last, nruns>>

ReverseCode ==
    /\ ret # Idle
    /\ ret.applied < MaxReverse
    /\ ret' = [ ret EXCEPT
                  !.applied = @ + 1,
                  !.values = reverse_code(args.definition, args.definition.items, @,
                                          args.definition.reverse) ]
    /\ UNCHANGED <<args, now, outdir, last, nruns>>

NextReverse == Coerce \/ ReverseCode

SpecReverse == InitReverse /\ [][NextReverse]_vars

\* C13: the reverse step (reversed = max_item + min_item - value, for the
\* designated items, when both bounds are set) applied twice restores a value
\* whenever the first subtraction is exact, as it is for whole-number values
\* and bounds, where one application gives max_item + min_item - value; a
\* missing value stays missing, and items that are not designated, or a
\* definition without both bounds, are left alone.
C13_SelfInverseWhenExact ==
    ret # Idle /\ ret.fn = "reverse_code" =>
        \A i \in 1..2 :
            LET definition == args.definition
                col == definition.items[i]
                original == to_float(args.cells[i])
                reversing == /\ col \in Range(definition.reverse)
                             /\ definition.max_item.present /\ definition.min_item.present
                             /\ original.present
                top == float(definition.max_item.value + definition.min_item.value, 1)
                exact == subtract(top, original.value) = float_sub(top, original.value)
            IN  /\ ~reversing => ret.values[i] = original
                /\ (reversing /\ IsNumeric(args.cells[i])) =>
                      /\ exact
                      /\ ret.applied = 1 =>
                            ret.values[i] =
                              Some(float(reverse_item(definition, col, Num(args.cells[i])), 1))
                /\ (reversing /\ exact /\ ret.applied = 2) => ret.values[i] = original

\* 0.5 with the bounds 0 and 3, reversed to 2.5 and back
C13_Witness ==
    /\ ret # Idle /\ ret.fn = "reverse_code" /\ ret.applied = 2
    /\ args.cells[2] = "0.5"
    /\ "phq9_item2" \in Range(args.definition.reverse)
    /\ args.definition.min_item = Some(0) /\ args.definition.max_item = Some(3)
    /\ ret.values[2] = Some(float(5, 10))

\* C13 as stated: the reverse step applied twice restores every original value.
C13_SelfInverse ==
    (ret # Idle /\ ret.fn = "reverse_code" /\ ret.applied = 2) =>
        ret.values = [i \in 1..2 |-> to_float(args.cells[i])]

----------------------------------------------------------------------------
(* stats.py: _interpret_cutoffs.  A band's text is its characters; a score   *)
(* and the bounds of a band are in hundredths.                               *)

Digits == <<"0", "1", "2", "3", "4", "5", "6", "7", "8", "9">>

\* str.strip() of blanks
strip(text) ==
    LET inked == {i \in 1..Len(text) : text[i] # " "}
    IN  IF inked = {} THEN <<>>
        ELSE SubSeq(text, CHOOSE i \in inked : \A j \in inked : i <= j,
                          CHOOSE i \in inked : \A j \in inked : j <= i)

RECURSIVE decimal(_)
decimal(digits) ==
    IF digits = <<>> THEN 0
    ELSE 10 * decimal(SubSeq(digits, 1, Len(digits) - 1))
         + (CHOOSE d \in 0..9 : Digits[d + 1] = digits[Len(digits)])

\* float(text), in hundredths, for numerals with a sign, a point and up to two
\* decimals; ok is FALSE where float raises ValueError
parse_float(text) ==
    LET t      == strip(text)
        signed == t # <<>> /\ t[1] \in {"+", "-"}
        body   == IF signed THEN Tail(t) ELSE t
        points == {i \in 1..Len(body) : body[i] = "."}
        point  == IF points = {} THEN Len(body) + 1 ELSE CHOOSE i \in points : TRUE
        whole  == SubSeq(body, 1, point - 1)
        frac   == SubSeq(body, point + 1, Len(body))
        ok     == /\ Cardinality(points) <= 1
                  /\ Range(whole) \cup Range(frac) \subseteq Range(Digits)
                  /\ Len(whole) + Len(frac) > 0
                  /\ Len(frac) <= 2
        cents  == IF Len(frac) = 1 THEN 10 * decimal(frac) ELSE decimal(frac)
        amount == 100 * decimal(whole) + cents
    IN  IF ok THEN [ok |-> TRUE, value |-> IF signed /\ t[1] = "-" THEN 0 - amount ELSE amount]
        ELSE [ok |-> FALSE, value |-> 0]

\* lines 182-201 for one band: the label with the bounds parsed from the text
parse_band(band) ==
    LET text == band.text
    IN  IF "+" \in Range(text)
        THEN LET low == parse_float(SelectSeq(text, LAMBDA c : c # "+"))
             IN  [label |-> band.label, ok |-> low.ok, low |-> low.value, high |-> Absent]
        ELSE IF "-" \in Range(text)
        THEN LET dash == CHOOSE i \in 1..Len(text) :
                            text[i] = "-" /\ \A j \in 1..(i - 1) : text[j] # "-"
                 low  == parse_float(SubSeq(text, 1, dash - 1))
                 high == parse_float(SubSeq(text, dash + 1, Len(text)))
             IN  [ label |-> band.label, ok |-> low.ok /\ high.ok, low |-> low.value,
                   high |-> Some(high.value) ]
        ELSE LET val == parse_float(text)
             IN  [label |-> band.label, ok |-> val.ok, low |-> val.value, high |-> Some(val.value)]

\* variant of band_holds: the lower bound is exclusive
band_holds_mut(band, x) ==
    /\ x > band.low
    /\ ~(band.high.present /\ x > band.high.value)

\* lines 203-207: neither `continue` is taken
band_holds(band, x) ==
    /\ ~(x < band.low)
    /\ ~(band.high.present /\ x > band.high.value)

NoLabel == [present |-> FALSE, value |-> ""]

\* _interpret_cutoffs(score, cutoffs); cutoffs = <<>> is None (or an empty dict)
_interpret_cutoffs(x, cutoffs) ==
    IF ~x.present \/ cutoffs = <<>> THEN NoLabel
    ELSE LET parsed == SelectSeq([i \in 1..Len(cutoffs) |-> parse_band(cutoffs[i])],
                                 LAMBDA b : b.ok)
             hits == {i \in 1..Len(parsed) : band_holds(parsed[i], x.value)}
         IN  IF hits = {} THEN NoLabel
             ELSE [ present |-> TRUE,
                    value |-> parsed[CHOOSE i \in hits : \A j \in hits : i <= j].label ]

----------------------------------------------------------------------------
(* The cutoff specification: _interpret_cutoffs on scores at, between and    *)
(* beyond the bounds, for the library's bands, the bands 0-4, 5-9, 10-14,    *)
(* 15+ and every list of up to MaxBands bands drawn from BandTexts.          *)

MaxBands == 2

BandTexts ==
    { <<"0", "-", "4">>, <<"5", "-", "9">>, <<"3", "-", "7">>, <<"1", "5", "+">>,
      <<"5">>, <<"x">>, <<"4", "-">>, <<" ", "5", " ", "-", " ", "9", ".", "5">> }

BandLabels == <<"first", "second", "third", "fourth">>

OpenEndedBands ==
    << [label |-> "first",  text |-> <<"0", "-", "4">>],
       [label |-> "second", text |-> <<"5", "-", "9">>],
       [label |-> "third",  text |-> <<"1", "0", "-", "1", "4">>],
       [label |-> "fourth", text |-> <<"1", "5", "+">>] >>

CutoffLists ==
    {phq9_cutoffs, gad7_cutoffs, OpenEndedBands}
    \cup UNION { { [i \in 1..n |-> [label |-> BandLabels[i], text |-> t[i]]] :
                    t \in [1..n -> BandTexts] } : n \in 0..MaxBands }

CutoffScores ==
    {Absent} \cup { Some(x) : x \in {0, 300, 400, 450, 500, 700, 900, 950, 1000,
                                      1450, 1500, 2100, 2700, 10000} }

InitCutoffs ==
    /\ args \in [fn : {"_interpret_cutoffs"}, score : CutoffScores, cutoffs : CutoffLists]
    /\ ret = Idle
    /\ InitRun

\* a call of the function under analysis on the arguments drawn
Returns(name, value(_)) ==
    /\ ret = Idle
    /\ ret' = [fn |-> name, out |-> value(args)]
    /\ UNCHANGED <<args, now, outdir, last, nruns>>

InterpretCutoffs ==
    Returns("_interpret_cutoffs", LAMBDA a : _interpret_cutoffs(a.score, a.cutoffs))

NextCutoffs == InterpretCutoffs

SpecCutoffs == InitCutoffs /\ [][NextCutoffs]_vars

\* C14: bands are tried in the order supplied and a score gets the label of
\* the first band with lower <= score <= upper, both bounds inclusive; a band
\* "N+" has the inclusive lower bound N and no upper bound; an absent score,
\* absent cutoffs, or a score that no band contains gets no interpretation.
C14_FirstMatchInclusive ==
    ret # Idle /\ ret.fn = "_interpret_cutoffs" =>
        LET cutoffs == args.cutoffs
            \* the range a band's text denotes, in hundredths: <<lower, upper>>,
            \* upper -1 for none, <<1, 0>> for a text that denotes no range
            range(text) ==
                CASE text = <<"0", "-", "4">> -> <<0, 400>>
                  [] text = <<"5", "-", "9">> -> <<500, 900>>
                  [] text = <<"3", "-", "7">> -> <<300, 700>>
                  [] text = <<"1", "0", "-", "1", "4">> -> <<1000, 1400>>
                  [] text = <<"1", "5", "-", "1", "9">> -> <<1500, 1900>>
                  [] text = <<"2", "0", "-", "2", "7">> -> <<2000, 2700>>
                  [] text = <<"1", "5", "-", "2", "1">> -> <<1500, 2100>>
                  [] text = <<"1", "5", "+">> -> <<1500, -1>>
                  [] text = <<"5">> -> <<500, 500>>
                  [] text = <<" ", "5", " ", "-", " ", "9", ".", "5">> -> <<500, 950>>
                  [] OTHER -> <<1, 0>>
            contains(i, x) ==
                LET rg == range(cutoffs[i].text)
                IN  rg[1] <= x /\ (rg[2] = -1 \/ x <= rg[2])
        IN  IF ~args.score.present \/ cutoffs = <<>> THEN ~ret.out.present
            ELSE LET x == args.score.value
                     hits == {i \in 1..Len(cutoffs) : contains(i, x)}
                 IN  IF hits = {} THEN ~ret.out.present
                     ELSE /\ ret.out.present
                          /\ ret.out.value =
                                cutoffs[CHOOSE i \in hits : \A j \in hits : i <= j].label

\* the score 5 with the bands 3-7 then 5-9: both contain it, the first wins
C14_Witness ==
    /\ ret # Idle /\ ret.fn = "_interpret_cutoffs"
    /\ args.score = Some(500)
    /\ Len(args.cutoffs) = 2
    /\ args.cutoffs[1].text = <<"3", "-", "7">>
    /\ args.cutoffs[2].text = <<"5", "-", "9">>
    /\ ret.out = [present |-> TRUE, value |-> "first"]

\* C15: with the contiguous bands 0-4, 5-9, 10-14, 15+ every score >= 0, the
\* scale means the report interprets among them, receives a band: 4 the
\* first, 5 the second, 100 the open-ended one.
C15_ExhaustiveBanding ==
    ( /\ ret # Idle /\ ret.fn = "_interpret_cutoffs"
      /\ args.cutoffs = OpenEndedBands
      /\ args.score.present /\ args.score.value >= 0 ) =>
        /\ ret.out.present
        /\ args.score.value = 400 => ret.out.value = "first"
        /\ args.score.value = 500 => ret.out.value = "second"
        /\ args.score.value = 10000 => ret.out.value = "fourth"

----------------------------------------------------------------------------
(* stats.py: the reliability analysis of one scale.  Item values are whole   *)
(* numbers, so the sums of squares below are exact; a variance is kept as    *)
(* n(n-1) times its value and alpha as a quotient of integers.               *)

None == [none |-> TRUE]

\* df[cols].apply(pd.to_numeric, errors="coerce").dropna(): the rows that stay
complete_rows(df, cols) ==
    SelectSeq([r \in 1..Len(df[1].cells) |-> r],
              LAMBDA r : \A c \in Range(cols) : IsNumeric(column(df, c).cells[r]))

RECURSIVE Sum(_)
Sum(xs) == IF xs = <<>> THEN 0 ELSE Head(xs) + Sum(Tail(xs))

\* Series.var(ddof=1) of xs, times n(n-1)
scaled_var(xs) == Len(xs) * Sum([j \in 1..Len(xs) |-> xs[j] * xs[j]]) - Sum(xs) * Sum(xs)

\* variant of zero_variance: the variance of the total is not looked at
zero_variance_mut(total_var) == FALSE

\* line 24: total_var == 0 (no item variance is NaN once two rows are left)
zero_variance(total_var) == total_var = 0

cronbach_alpha(df, cols) ==
    IF Len(cols) < 2 THEN None
    ELSE LET rows == complete_rows(df, cols)
             items(c) == [j \in 1..Len(rows) |-> Num(column(df, c).cells[rows[j]])]
             item_vars == Sum([i \in 1..Len(cols) |-> scaled_var(items(cols[i]))])
             total_var == scaled_var([j \in 1..Len(rows) |->
                                         Sum([i \in 1..Len(cols) |-> items(cols[i])[j]])])
             k == Len(cols)
         IN  IF Len(rows) < 2 THEN None
             ELSE IF zero_variance(total_var) THEN None
             ELSE Ratio(k * (total_var - item_vars), (k - 1) * total_var)

\* `x or float("nan")`: None and 0.0 are false
or_nan(x) == IF x = None \/ (~x.nan /\ x.num = 0) THEN NaN ELSE x

\* [c for c in cols if c != col]
remaining(cols, col) == SelectSeq(cols, LAMBDA c : c # col)

alpha_if_item_dropped(df, cols) ==
    IF Len(cols) < 3 THEN None
    ELSE [col \in Range(cols) |-> or_nan(cronbach_alpha(df, remaining(cols, col)))]

\* the rows each of the four computations works on: each one drops the
\* incomplete rows of the columns it is given (lines 18, 36, 68 and, through
\* cronbach_alpha(df, remaining), 18 again)
rows_used(df, cols) ==
    [ cronbach_alpha          |-> complete_rows(df, cols),
      mcdonald_omega          |-> complete_rows(df, cols),
      item_total_correlations |-> complete_rows(df, cols),
      alpha_if_item_dropped   |->
          [col \in Range(cols) |-> complete_rows(df, remaining(cols, col))] ]

\* scale_reliability_summary for one scale: alpha and alpha-if-item-dropped
\* with their values, every metric with the rows it is computed on (omega and
\* the correlations need an eigendecomposition and square roots)
scale_reliability_summary(df, items_list) ==
    [ items                 |-> items_list,
      cronbach_alpha        |-> IF Len(items_list) >= 2 THEN cronbach_alpha(df, items_list)
                                ELSE None,
      alpha_if_item_dropped |-> alpha_if_item_dropped(df, items_list),
      rows                  |-> rows_used(df, items_list) ]

----------------------------------------------------------------------------
(* The reliability specification: one scale of one to three items on frames  *)
(* of up to MaxItemRows rows, among them constant items, rows that differ    *)
(* but sum alike, uncorrelated items and rows with a missing or non-numeric  *)
(* cell.                                                                     *)

MaxItemRows == 4

ItemRows ==
    { <<"0", "0", "0">>, <<"0", "1", "1">>, <<"1", "0", "1">>, <<"1", "1", "0">>,
      <<NA, "1", "0">>, <<"2", "ok", "3">> }

ReliabilityFrames ==
    UNION { { [i \in 1..3 |-> [ name |-> phq9_items[i], text |-> FALSE,
                                cells |-> [r \in 1..n |-> rows[r][i]] ]] :
              rows \in [1..n -> ItemRows] } : n \in 1..MaxItemRows }

InitReliability ==
    /\ args \in [ fn : {"scale_reliability_summary"}, df : ReliabilityFrames,
                  cols : {SubSeq(phq9_items, 1, k) : k \in 1..3} ]
    /\ ret = Idle
    /\ InitRun

ScaleReliability ==
    Returns("scale_reliability_summary", LAMBDA a : scale_reliability_summary(a.df, a.cols))

NextReliability == ScaleReliability

SpecReliability == InitReliability /\ [][NextReliability]_vars

C17_SameCompleteCases ==
    (ret # Idle /\ ret.fn = "scale_reliability_summary" /\ Len(args.cols) >= 3) =>
        LET cols == args.cols
            complete == complete_rows(args.df, cols)
            cases == [i \in 1..Len(args.df) |->
                         [args.df[i] EXCEPT !.cells = [j \in 1..Len(complete) |->
                                                          args.df[i].cells[complete[j]]]]]
        IN  /\ ret.out.rows.cronbach_alpha = complete
            /\ ret.out.rows.mcdonald_omega = complete
            /\ ret.out.rows.item_total_correlations = complete
            /\ \A col \in Range(cols) :
                 /\ ret.out.rows.alpha_if_item_dropped[col] = complete
                 /\ ret.out.alpha_if_item_dropped[col]
                      = or_nan(cronbach_alpha(cases, remaining(cols, col)))

\* C18: for a scale of at least 3 items alpha-if-item-dropped has one entry
\* per item, equal to the alpha of the remaining items whenever that alpha is
\* defined, 0 included; for fewer than 3 items it is absent.
C18_AlphaIfDroppedIsAlphaOfRest ==
    ret # Idle /\ ret.fn = "scale_reliability_summary" =>
        LET cols == args.cols
            dropped == ret.out.alpha_if_item_dropped
        IN  IF Len(cols) < 3 THEN dropped = None
            ELSE /\ DOMAIN dropped = Range(cols)
                 /\ \A col \in Range(cols) :
                      LET alpha == cronbach_alpha(args.df, remaining(cols, col))
                      IN  alpha # None => dropped[col] = alpha

----------------------------------------------------------------------------
(* The report specification: one stats or full run on an input drawn at the  *)
(* start (args), so that what the run left behind can be held against what   *)
(* it was given: score and item columns that are numeric, present without a  *)
(* numeric value, or absent; a scored scale or none; the reliability section *)
(* configured or not.                                                        *)

MaxReportRuns == 1

TextScoreColumn == [name |-> score, text |-> TRUE, cells |-> <<"ok", NA>>]

NoteScale ==
    [name |-> "notes", items |-> <<note>>, cronbach_alpha |-> Absent, mcdonald_omega |-> Absent]

ReportInputs ==
    { [RunBase EXCEPT !.df = f, !.scales = sc, !.scored = sd, !.alerts = a,
                      !.dry_run = d, !.allow_phi_export = x] :
      f  \in {<<NoteColumn, ScoreColumn>>, <<NoteColumn, TextScoreColumn>>, <<NoteColumn>>,
              PhiFrame},
      sc \in {<<>>, <<ScoreScale(Some(60))>>, <<NoteScale>>},
      sd \in {<<>>, <<Scored("phq9", "phq9_score", <<"1", "2">>)>>,
              <<Scored("phq9", "phq9_score", <<"0", "0">>)>>},
      a  \in {NoAlertRules, SomeAlertRules},
      d  \in BOOLEAN, x \in BOOLEAN }

InitReport ==
    /\ args \in ReportInputs
    /\ ret = Idle
    /\ now = 0
    /\ outdir = EmptyDir
    /\ last = Stopped("none", "none", EmptyDir)
    /\ nruns = 0

\* main, for the one input args
InvokeOnce(action(_, _, _), bound) ==
    /\ nruns < bound
    /\ LET r == action(outdir, args, now + args.elapsed)
       IN  /\ now' = now + args.elapsed
           /\ outdir' = r.dir
           /\ last' = [r EXCEPT !.dir = outdir]
    /\ nruns' = nruns + 1
    /\ UNCHANGED <<args, ret>>

StatsReport == InvokeOnce(_run_stats, MaxReportRuns)
FullReport  == InvokeOnce(_run_full, MaxReportRuns)

NextReport == StatsReport \/ FullReport

SpecReport == InitReport /\ [][NextReport]_vars

\* C19: a stats or full run that the PHI guard and the dry-run switch let
\* through, and whose requested score columns and scale item columns all exist
\* in the frame, completes and leaves a report, whatever the columns hold.
C19_ReportAlwaysProducible ==
    (last.cmd \in {"stats", "run"} /\ last.status \notin {"phi_abort", "dry_run"}) =>
        LET prep == prepared(args)
            cols == _ensure_score_cols(args.score_cols, prep.scales_scored)
            requested == Range(cols) \cup UNION {Range(args.scales[i].items) :
                                                    i \in 1..Len(args.scales)}
        IN  (cols # <<>> /\ requested \subseteq columns(prep.df)) =>
                /\ last.status = "done"
                /\ outdir.report.present

\* C20: after a stats or full run, every scored scale whose output column
\* holds a numeric value has one summary with its name, score column and mean
\* in the report, and the same summary in the run manifest, whether or not a
\* reliability section is configured.
C20_ScoredScalesAreSummarised ==
    (last.cmd \in {"stats", "run"} /\ last.status = "done") =>
        \A k \in 1..Len(args.scored) :
            LET e == args.scored[k]
                summarises(list) ==
                    Cardinality({i \in 1..Len(list) :
                                    /\ list[i].name = e.name
                                    /\ list[i].score_column = e.output_column
                                    /\ list[i].mean = series_mean([name |-> e.output_column,
                                                                   text |-> FALSE,
                                                                   cells |-> e.cells])}) = 1
            IN  (\E r \in 1..Len(e.cells) : IsNumeric(e.cells[r])) =>
                    /\ summarises(outdir.report.value.scale_scores)
                    /\ summarises(outdir.run_manifest.value.scale_scores)

----------------------------------------------------------------------------
(* Drift alerts, the keyword heuristic and the scan's frame: properties of   *)
(* SpecDrift and SpecPhi                                                     *)

\* C21: every drift alert of a completed run carries the scale, the previous
\* mean, the current mean and the delta, and its message reads "<scale> mean
\* changed by <delta> vs last run" with the delta printed with a sign (+ or -)
\* and two decimals.
C21_DriftAlertFieldsAndSign ==
    last.status = "done" =>
        \A i \in 1..Len(last.produced.drift) :
            LET a == last.produced.drift[i]
            IN  /\ a.message[1] = a.scale
                /\ a.message[2] = " mean changed by "
                /\ a.message[4] = " vs last run"
                /\ a.message[3].hundredths = Abs(a.delta)
                /\ a.message[3].sign = (IF a.delta < 0 THEN "-" ELSE "+")
                /\ {"scale", "previous_mean", "current_mean", "delta"} \subseteq DOMAIN a

\* C22 (as amended): every text-valued column with a non-missing value that is
\* not ignored gets, when no pattern matches a value and its name contains
\* (case-insensitively) a default keyword or a caller-supplied keyword, one
\* finding whose only match is `column_name` with the column's non-missing row
\* count; when a pattern matches, its finding has no `column_name` match.
C22_KeywordHeuristic ==
    ret.fn = "scan_phi_columns" =>
        LET options == args.options
            regex_hit(c) ==
                \E r \in 1..Len(c.cells), k \in 1..Len(phi_patterns(options)) :
                    c.cells[r] # NA /\ str_contains(c.cells[r], phi_patterns(options)[k].regex)
            keyword(c) ==
                \E t \in DefaultTokens \cup Range(options.keywords) :
                    IsSubstring(Lower(Spell(t)), Lower(Spell(c.name)))
            nonmissing(c) == Cardinality({r \in 1..Len(c.cells) : c.cells[r] # NA})
            finding(c) == SelectSeq(ret.scan.flagged, LAMBDA f : f.column = c.name)
        IN  \A c \in Range(args.df) :
                (c.text /\ c.name \notin Range(options.ignore_columns) /\ nonmissing(c) > 0) =>
                    /\ (~regex_hit(c) /\ keyword(c)) =>
                          finding(c) = << [ column  |-> c.name,
                                            matches |-> << [ pattern |-> "column_name",
                                                             count   |-> nonmissing(c) ] >> ] >>
                    /\ regex_hit(c) =>
                          /\ Len(finding(c)) = 1
                          /\ \A m \in Range(finding(c)[1].matches) : m.pattern # "column_name"

\* a scan that flags `contact` by the caller's keyword alone, with one
\* non-missing row, and `Name` by its e-mail address, not by its name
C22_Witness ==
    /\ ret.fn = "scan_phi_columns"
    /\ args.options.keywords = <<contact>>
    /\ \E i, j \in 1..Len(ret.scan.flagged) :
         /\ ret.scan.flagged[i] = [ column  |-> contact,
                                    matches |-> << [pattern |-> "column_name", count |-> 1] >> ]
         /\ ret.scan.flagged[j] = [ column  |-> Name,
                                    matches |-> << [pattern |-> "email", count |-> 1] >> ]

\* C22 as stated, for every text-valued column that is not ignored, a column
\* without a non-missing value included
C22_KeywordHeuristicEveryColumn ==
    ret.fn = "scan_phi_columns" =>
        LET options == args.options
            regex_hit(c) ==
                \E r \in 1..Len(c.cells), k \in 1..Len(phi_patterns(options)) :
                    c.cells[r] # NA /\ str_contains(c.cells[r], phi_patterns(options)[k].regex)
            keyword(c) ==
                \E t \in DefaultTokens \cup Range(options.keywords) :
                    IsSubstring(Lower(Spell(t)), Lower(Spell(c.name)))
            nonmissing(c) == Cardinality({r \in 1..Len(c.cells) : c.cells[r] # NA})
            finding(c) == SelectSeq(ret.scan.flagged, LAMBDA f : f.column = c.name)
        IN  \A c \in Range(args.df) :
                (c.text /\ c.name \notin Range(options.ignore_columns)) =>
                    /\ (~regex_hit(c) /\ keyword(c)) =>
                          finding(c) = << [ column  |-> c.name,
                                            matches |-> << [ pattern |-> "column_name",
                                                             count   |-> nonmissing(c) ] >> ] >>
                    /\ regex_hit(c) =>
                          /\ Len(finding(c)) = 1
                          /\ \A m \in Range(finding(c)[1].matches) : m.pattern # "column_name"

\* C23: a column listed in ignore_columns produces no finding, is not
\* quarantined and remains in the working dataset with its values, whatever
\* its values or name; when every column that holds a pattern match or bears a
\* keyword in its name is ignored, the findings list is empty and the
\* quarantine dataset is absent.
C23_IgnoredColumnsNeverScanned ==
    ret.fn = "scan_phi_columns" =>
        LET options == args.options
            ignore  == Range(options.ignore_columns)
            phi_like(c) ==
                /\ c.text
                /\ \E r \in 1..Len(c.cells) : c.cells[r] # NA
                /\ \/ \E r \in 1..Len(c.cells), k \in 1..Len(phi_patterns(options)) :
                         c.cells[r] # NA
                         /\ str_contains(c.cells[r], phi_patterns(options)[k].regex)
                   \/ \E t \in DefaultTokens \cup Range(options.keywords) :
                         IsSubstring(Lower(Spell(t)), Lower(Spell(c.name)))
        IN  /\ \A c \in Range(args.df) :
                 c.name \in ignore =>
                     /\ \A i \in 1..Len(ret.scan.flagged) : ret.scan.flagged[i].column # c.name
                     /\ c \notin Range(ret.scan.quarantine.cols)
                     /\ c \in Range(ret.scan.df)
            /\ (\A c \in Range(args.df) : phi_like(c) => c.name \in ignore) =>
                 /\ ret.scan.flagged = <<>>
                 /\ ~ret.scan.quarantine.present

\* the scan of tests/test_phi.py test_ignore_columns_skips_phi_scan: `contact`
\* holds an e-mail address and is ignored; nothing is found or quarantined
C23_Witness ==
    /\ ret.fn = "scan_phi_columns"
    /\ args.options.ignore_columns = <<contact>>
    /\ args.options.allow_columns = <<>>
    /\ \E i \in 1..Len(args.df) :
         /\ args.df[i] = [name |-> contact, text |-> TRUE, cells |-> <<"a@x.com", NA>>]
         /\ args.df[i] \in Range(ret.scan.df)
    /\ ret.scan.flagged = <<>>
    /\ ~ret.scan.quarantine.present

----------------------------------------------------------------------------
(* Scanning the working dataset a scan returned, with the same options *)

Rescan ==
    /\ ret.fn = "scan_phi_columns"
    /\ ret' = [ fn |-> "rescan", scan |-> ret.scan,
                again |-> scan_phi_columns(ret.scan.df, args.options) ]
    /\ UNCHANGED <<args, now, outdir, last, nruns>>

NextRescan == Scan \/ Rescan

SpecRescan == InitPhi /\ [][NextRescan]_vars

\* C24: a second scan, with the same options, of the working dataset a scan
\* returned has no finding for a column the first scan removed, quarantines
\* nothing (its quarantine dataset is absent) and returns the working dataset
\* unchanged.
C24_ScanIdempotent ==
    ret.fn = "rescan" =>
        /\ \A c \in Range(ret.scan.quarantine.cols) :
             \A i \in 1..Len(ret.again.flagged) : ret.again.flagged[i].column # c.name
        /\ ~ret.again.quarantine.present
        /\ ret.again.quarantine.cols = <<>>
        /\ ret.again.df = ret.scan.df

\* a second scan after a first one that removed a column and kept a flagged,
\* allow-listed one, which the second scan flags again
C24_Witness ==
    /\ ret.fn = "rescan"
    /\ Len(ret.scan.quarantine.cols) = 1
    /\ Len(ret.scan.flagged) = 2
    /\ Len(ret.again.flagged) = 1
    /\ ret.again.flagged[1].column \in Range(args.options.allow_columns)

----------------------------------------------------------------------------
(* cli.py: the [prdt.phi] section of the configuration.  A value of the raw  *)
(* section is absent, a string or a list of strings.                         *)

NoValue == [kind |-> "none", text |-> "", items |-> <<>>]
StrValue(s) == [kind |-> "str", text |-> s, items |-> <<>>]
ListValue(xs) == [kind |-> "list", text |-> "", items |-> xs]

\* a custom pattern that is not a regular expression: its group is not closed
RE_UNCLOSED == "demo_(\\d+"

\* re.compile(regex) returns (TRUE) or raises re.error (FALSE)
re_compiles(regex) == regex # RE_UNCLOSED

_as_list(value) ==
    CASE value.kind = "str"  -> <<value.text>>
      [] value.kind = "list" -> value.items
      [] OTHER               -> <<>>

\* _normalize_phi_options: the four options as lists; nothing is raised
_normalize_phi_options(raw) ==
    IF ~raw.is_dict
    THEN [ raised |-> FALSE, options |-> NoPhiOptions ]
    ELSE [ raised  |-> FALSE,
           options |-> [ extra_patterns |-> _as_list(raw.extra_patterns),
                         keywords       |-> _as_list(raw.keywords),
                         ignore_columns |-> _as_list(raw.ignore_columns),
                         allow_columns  |-> _as_list(raw.allow_columns) ] ]

\* scan_phi_columns, line 54: Series.str.contains compiles the pattern and
\* raises re.error for the first pattern that does not compile, in the first
\* column the loop reaches
scan_raises(df, options) ==
    /\ \E i \in 1..Len(df) : column_scanned(df[i], options)
    /\ \E k \in 1..Len(phi_patterns(options)) : ~re_compiles(phi_patterns(options)[k].regex)

RawSections ==
    [ is_dict        : BOOLEAN,
      extra_patterns : {NoValue, StrValue(RE_DEMO), StrValue(RE_UNCLOSED), ListValue(<<>>),
                        ListValue(<<RE_DEMO, RE_UNCLOSED>>)},
      keywords       : {NoValue, StrValue(contact)},
      ignore_columns : {NoValue, ListValue(<<contact>>)},
      allow_columns  : {NoValue, ListValue(<<contact>>)} ]

ConfiguredFrames ==
    { <<ScoreColumn>>, <<NoteColumn, ScoreColumn>>, <<ContactColumn>>,
      <<[name |-> note, text |-> TRUE, cells |-> <<"demo_1", "ok">>], ContactColumn>> }

InitConfigure ==
    /\ args \in [fn : {"_normalize_phi_options"}, raw : RawSections, df : ConfiguredFrames]
    /\ ret = Idle
    /\ InitRun

\* _load_config, line 788: the options are normalised while the configuration is read
Normalize ==
    /\ ret = Idle
    /\ ret' = [ fn |-> "_normalize_phi_options",
                raised |-> _normalize_phi_options(args.raw).raised,
                options |-> _normalize_phi_options(args.raw).options,
                scan |-> <<>> ]
    /\ UNCHANGED <<args, now, outdir, last, nruns>>

\* _prepare_dataframe, line 204: the scan of the frame read from the input
ScanConfigured ==
    /\ ret.fn = "_normalize_phi_options"
    /\ ~ret.raised
    /\ ret' = [ fn |-> "scan_phi_columns",
                raised |-> scan_raises(args.df, ret.options),
                options |-> ret.options,
                scan |-> IF scan_raises(args.df, ret.options) THEN <<>>
                         ELSE scan_phi_columns(args.df, ret.options).flagged ]
    /\ UNCHANGED <<args, now, outdir, last, nruns>>

NextConfigure == Normalize \/ ScanConfigured

SpecConfigure == InitConfigure /\ [][NextConfigure]_vars

\* C25: when the configuration holds a custom pattern that is not a regular
\* expression, normalising the options raises an error: nothing is read or
\* scanned with that configuration, the pattern is not ignored and no error
\* first comes up during the column scan.
C25_MalformedPatternRejectedAtConfiguration ==
    LET custom == _as_list(args.raw.extra_patterns)
    IN  (args.raw.is_dict /\ \E k \in 1..Len(custom) : ~re_compiles(custom[k])) =>
            (ret # Idle => (ret.fn = "_normalize_phi_options" /\ ret.raised))

----------------------------------------------------------------------------
(* The drift check in both directions: two runs' scale-score summaries A and *)
(* B, each once as the previous manifest and once as the current one.        *)

SummaryMeans == {0, 50, 100, 150, 250}

Summary(name, mean) == [name |-> name, score_column |-> name, mean |-> mean]

SummaryLists ==
    { <<Summary("phq9", m)>> : m \in SummaryMeans }
    \cup { <<Summary("gad7", m)>> : m \in {0, 150} }
    \cup { <<Summary("phq9", m), Summary("gad7", n)>> : m \in SummaryMeans, n \in {0, 150} }

ManifestOf(scale_scores) ==
    [ command |-> "stats", alerts_count |-> 0, outputs |-> {"report.json"},
      scale_scores |-> scale_scores ]

\* the output location after a run with summaries `before` and, a second
\* later, a run with summaries `after`
DirAfter(before, after) ==
    [ EmptyDir EXCEPT !.run_manifest = File(ManifestOf(after)),
                      !.manifests = << [stamp |-> 1, data |-> ManifestOf(before)],
                                       [stamp |-> 2, data |-> ManifestOf(after)] >> ]

drift_between(before, after) ==
    _run_drift_check(DirAfter(before, after), 2, ManifestOf(after))

InitSymmetry ==
    /\ args \in [fn : {"_run_drift_check"}, A : SummaryLists, B : SummaryLists]
    /\ ret = Idle
    /\ InitRun

DriftBothWays ==
    Returns("_run_drift_check",
            LAMBDA a : [forth |-> drift_between(a.A, a.B), back |-> drift_between(a.B, a.A)])

NextSymmetry == DriftBothWays

SpecSymmetry == InitSymmetry /\ [][NextSymmetry]_vars

\* C26: for two runs A and B and every scale with a summary in both, the
\* drift check with A as previous and B as current reports the scale exactly
\* when the check with B as previous and A as current does, and the delta it
\* reports (B's mean minus A's) is the negation of the other's.
C26_DriftSymmetric ==
    ret.fn = "_run_drift_check" =>
        LET names(s) == {s[i].name : i \in 1..Len(s)}
            mean(s, n) == s[CHOOSE i \in 1..Len(s) : s[i].name = n].mean
            forth(n) == SelectSeq(ret.out.forth.records, LAMBDA r : r.scale = n)
            back(n) == SelectSeq(ret.out.back.records, LAMBDA r : r.scale = n)
            said(res, n) == SelectSeq(res.alerts, LAMBDA a : a.scale = n)
        IN  \A n \in names(args.A) \cap names(args.B) :
                /\ (forth(n) # <<>>) <=> (back(n) # <<>>)
                /\ (said(ret.out.forth, n) # <<>>) <=> (said(ret.out.back, n) # <<>>)
                /\ (forth(n) # <<>>) <=> (said(ret.out.forth, n) # <<>>)
                /\ forth(n) # <<>> =>
                     /\ Len(forth(n)) = 1 /\ Len(back(n)) = 1
                     /\ forth(n)[1].delta = mean(args.B, n) - mean(args.A, n)
                     /\ forth(n)[1].delta = -(back(n)[1].delta)
                     /\ said(ret.out.forth, n)[1].delta = -(said(ret.out.back, n)[1].delta)

\* phq9 rose by exactly 1.00 from A to B and is reported both ways, with
\* deltas +1.00 and -1.00; gad7, in both runs, did not move and is not
C26_Witness ==
    /\ ret.fn = "_run_drift_check"
    /\ Len(args.A) = 2 /\ Len(args.B) = 2
    /\ Len(ret.out.forth.records) = 1 /\ Len(ret.out.back.records) = 1
    /\ ret.out.forth.records[1].scale = "phq9" /\ ret.out.forth.records[1].delta = 100
    /\ ret.out.back.records[1].scale = "phq9" /\ ret.out.back.records[1].delta = -100

----------------------------------------------------------------------------
(* One invocation of each command, with input args, into an output location  *)
(* that is empty or holds what an earlier full run left (clean CSV, report,  *)
(* alerts, quarantine file, manifest).  nruns counts the invocations with    *)
(* input args.                                                               *)

MaxGateRuns == 1

EarlierInput ==
    [RunBase EXCEPT !.df = PhiFrame, !.allow_phi_export = TRUE, !.alerts = SomeAlertRules]

InitGate ==
    /\ args \in RunInputs
    /\ ret = Idle
    /\ now = 0
    /\ outdir = EmptyDir
    /\ last = Stopped("none", "none", EmptyDir)
    /\ nruns = 0

\* main, for an earlier invocation with another input
Earlier(action(_, _, _), in) ==
    /\ nruns = 0
    /\ outdir = EmptyDir
    /\ now' = now + in.elapsed
    /\ outdir' = action(outdir, in, now + in.elapsed).dir
    /\ UNCHANGED <<args, ret, last, nruns>>

EarlierFull == Earlier(_run_full, EarlierInput)

CleanOnce == InvokeOnce(_run_clean, MaxGateRuns)
StatsOnce == InvokeOnce(_run_stats, MaxGateRuns)
PlotOnce  == InvokeOnce(_run_plot, MaxGateRuns)
FullOnce  == InvokeOnce(_run_full, MaxGateRuns)

NextGate == EarlierFull \/ CleanOnce \/ StatsOnce \/ PlotOnce \/ FullOnce

SpecGate == InitGate /\ [][NextGate]_vars

----------------------------------------------------------------------------
(* The scan of an invocation's frame and one invocation of each command with *)
(* export allowed or not: frames with an e-mail column, a column flagged by  *)
(* its name, plain text and numeric columns; keyword, ignore and allow       *)
(* options.                                                                  *)

MaxPartitionRuns == 1

NameColumn == [name |-> Name, text |-> TRUE, cells |-> <<"ok", "ok">>]

PartitionFrames ==
    { <<NoteColumn, ScoreColumn>>, PhiFrame, <<ContactColumn, NameColumn, ScoreColumn>>,
      <<NameColumn, NoteColumn, ScoreColumn>> }

PartitionInputs ==
    { [RunBase EXCEPT !.df = f, !.allow_phi_export = x,
                      !.phi_options = [ extra_patterns |-> <<>>, keywords |-> k,
                                        ignore_columns |-> i, allow_columns |-> a ]] :
      f \in PartitionFrames, x \in BOOLEAN, k \in {<<>>, <<note>>},
      i \in {<<>>, <<contact>>}, a \in {<<>>, <<contact>>, <<Name>>} }

InitPartition ==
    /\ args \in PartitionInputs
    /\ ret = Idle
    /\ now = 0
    /\ outdir = EmptyDir
    /\ last = Stopped("none", "none", EmptyDir)
    /\ nruns = 0

ScanInput ==
    Returns("scan_phi_columns", LAMBDA a : scan_phi_columns(a.df, a.phi_options))

CleanPartition == InvokeOnce(_run_clean, MaxPartitionRuns)
StatsPartition == InvokeOnce(_run_stats, MaxPartitionRuns)
PlotPartition  == InvokeOnce(_run_plot, MaxPartitionRuns)
FullPartition  == InvokeOnce(_run_full, MaxPartitionRuns)

NextPartition ==
    ScanInput \/ CleanPartition \/ StatsPartition \/ PlotPartition \/ FullPartition

SpecPartition == InitPartition /\ [][NextPartition]_vars

\* C28: the scan's working dataset and quarantine dataset have no column in
\* common and together hold exactly the input columns, with their values; the
\* quarantine holds exactly the flagged columns that are not allow-listed and
\* is absent when there are none; every column without a finding is retained.
\* After a completed run no column that had to be quarantined is in the
\* cleaned CSV or in the report, and none is in the frame handed to scoring.
C28_ScanPartitionsColumns ==
    LET options == args.phi_options
        names(f) == {f[i].name : i \in 1..Len(f)}
        phi_like(c) ==
            /\ c.text
            /\ c.name \notin Range(options.ignore_columns)
            /\ \E r \in 1..Len(c.cells) : c.cells[r] # NA
            /\ \/ \E r \in 1..Len(c.cells), k \in 1..Len(phi_patterns(options)) :
                     c.cells[r] # NA
                     /\ str_contains(c.cells[r], phi_patterns(options)[k].regex)
               \/ \E t \in DefaultTokens \cup Range(options.keywords) :
                     IsSubstring(Lower(Spell(t)), Lower(Spell(c.name)))
        due == {c.name : c \in {d \in Range(args.df) : phi_like(d)}}
                   \ Range(options.allow_columns)
    IN  /\ ret.fn = "scan_phi_columns" =>
             /\ names(ret.out.df) \cap names(ret.out.quarantine.cols) = {}
             /\ Range(ret.out.df) \cup Range(ret.out.quarantine.cols) = Range(args.df)
             /\ Len(ret.out.df) + Len(ret.out.quarantine.cols) = Len(args.df)
             /\ names(ret.out.quarantine.cols) = due
             /\ names(ret.out.quarantine.cols) =
                  {ret.out.flagged[i].column : i \in 1..Len(ret.out.flagged)}
                      \ Range(options.allow_columns)
             /\ ret.out.quarantine.present <=> due # {}
             /\ \A c \in Range(args.df) :
                  (\A i \in 1..Len(ret.out.flagged) : ret.out.flagged[i].column # c.name)
                      => c \in Range(ret.out.df)
        /\ (nruns > 0 /\ last.status = "done") =>
             /\ outdir.interim_clean.present =>
                  names(outdir.interim_clean.value) = names(args.df) \ due
             /\ outdir.report.present =>
                  \A i \in 1..Len(outdir.report.value.missing.percent) :
                      outdir.report.value.missing.percent[i].column \notin due
             /\ names(_prepare_dataframe(args.df, <<"phq9">>, <<>>, options).df) \cap due = {}

\* a full run with export allowed over a frame whose e-mail column is
\* allow-listed and whose Name column is quarantined: the cleaned CSV holds
\* the former and not the latter
C28_Witness ==
    /\ nruns > 0 /\ last.status = "done" /\ last.cmd = "run"
    /\ args.phi_options.allow_columns = <<contact>>
    /\ outdir.phi_quarantine.present
    /\ {outdir.phi_quarantine.value[i].name : i \in 1..Len(outdir.phi_quarantine.value)}
         = {Name}
    /\ outdir.interim_clean.present
    /\ {outdir.interim_clean.value[i].name : i \in 1..Len(outdir.interim_clean.value)}
         = {contact, score}
    /\ outdir.report.present

----------------------------------------------------------------------------
(* The run's artifacts: properties of SpecGate *)

\* C29: after a completed run of any command, into an empty output location
\* or after an earlier run, phi_quarantine.csv is there exactly when the run
\* quarantined a column, and then holds the quarantined columns with their raw
\* values; a file an earlier run left is gone when the run quarantined none.
C29_QuarantineFileFollowsRun ==
    (nruns > 0 /\ last.status = "done") =>
        LET options == args.phi_options
            phi_like(c) ==
                /\ c.text
                /\ c.name \notin Range(options.ignore_columns)
                /\ \E r \in 1..Len(c.cells) : c.cells[r] # NA
                /\ \/ \E r \in 1..Len(c.cells), k \in 1..Len(phi_patterns(options)) :
                         c.cells[r] # NA
                         /\ str_contains(c.cells[r], phi_patterns(options)[k].regex)
                   \/ \E t \in DefaultTokens \cup Range(options.keywords) :
                         IsSubstring(Lower(Spell(t)), Lower(Spell(c.name)))
            due == {c \in Range(args.df) :
                       phi_like(c) /\ c.name \notin Range(options.allow_columns)}
        IN  /\ outdir.phi_quarantine.present <=> due # {}
            /\ outdir.phi_quarantine.present => Range(outdir.phi_quarantine.value) = due

\* a completed run that quarantined nothing, into an output location where an
\* earlier run had left phi_quarantine.csv: the file is gone
C29_Witness ==
    /\ nruns > 0 /\ last.status = "done"
    /\ last.dir.phi_quarantine.present
    /\ ~outdir.phi_quarantine.present

====
